---- MODULE Spec2Model ----
(***************************************************************************)
(* Warehouse service: the Kafka consumer loop, the per-event database      *)
(* transaction (journal check, product, warehouse, stock, movement,        *)
(* journal insert), the cache invalidation and the offset commit.          *)
(*                                                                         *)
(* Peer consumers of one group each own one partition.  One action is one  *)
(* awaited I/O operation of the code together with the synchronous code     *)
(* that follows it up to the next await (asyncio is cooperative).          *)
(*                                                                         *)
(* The database is PostgreSQL at READ COMMITTED: a statement sees the      *)
(* committed rows; SELECT ... FOR UPDATE and UPDATE wait for the row lock; *)
(* an INSERT of a key another open transaction has inserted waits for that *)
(* transaction to end and fails with a unique violation if it committed.   *)
(* Tables are sets of rows; primary keys are enforced by the insert        *)
(* actions, not by the representation.                                     *)
(***************************************************************************)
EXTENDS Integers, Sequences, FiniteSets, TLC

\* nullable column / Optional[...]: the empty set is None, {v} is the value v
Null == {}
Some(v) == {v}
The(s) == CHOOSE x \in s : TRUE

\* ------------------------------------------------------------------ bounds
\* longest partition log of the first consumer / of the second consumer
MaxLog == 2
MaxLogPeer == 1
\* largest |quantity| a message carries
MaxQty == 1

Consumers == {"c1", "c2"}
Peer(c) == IF c = "c1" THEN "c2" ELSE "c1"

\* ------------------------------------------------------- raw Kafka messages
\* message.value as bytes: JSON text, bytes that are not UTF-8, or text that
\* is not JSON.  For JSON the relevant envelope and data fields follow.
Encodings == {"json", "not_utf8", "not_json"}

\* a timestamp string: parses as ISO-8601 to `secs`, or does not parse
IsoTs(s) == [iso |-> TRUE, secs |-> s]
BadTs == [iso |-> FALSE, secs |-> 0]

RawMessage(enc, id, time, mov, wh, ts, ev, prod, qty) ==
    [encoding |-> enc, id |-> id, time |-> time, movement_id |-> mov,
     warehouse_id |-> wh, timestamp |-> ts, event |-> ev, product_id |-> prod,
     quantity |-> qty]

\* EventType (models.py): the two members' values
EventTypeValues == {"arrival", "departure"}

\* str.lower() on the event strings the model uses
Lower(s) ==
    CASE s = "ARRIVAL" -> "arrival"
      [] s = "DEPARTURE" -> "departure"
      [] OTHER -> s

\* json.loads(message.value.decode("utf-8")) succeeds
Decodes(m) == m.encoding = "json"

\* MovementEventData: required movement_id, validate_timestamp_format,
\* validate_event_type
ValidData(m) ==
    /\ m.movement_id # Null
    /\ m.timestamp.iso
    /\ Lower(m.event) \in EventTypeValues

\* a validation without validate_time_positive
model_validate_NoTime(m) == ValidData(m)

\* KafkaMessage.model_validate: validate_time_positive and the nested data
model_validate(m) == m.time >= 0 /\ ValidData(m)

\* _prepare_event_data: the dict handed to WarehouseService
prepare_event_data(m) ==
    [message_id |-> m.id,
     movement_id |-> The(m.movement_id),
     warehouse_id |-> m.warehouse_id,
     timestamp |-> m.timestamp.secs,
     event_type |-> Lower(m.event),
     product_id |-> m.product_id,
     quantity |-> m.quantity]

\* steps 1-3 of _process_message_wrapper yield event data (else return True)
Wellformed(m) == Decodes(m) /\ model_validate(m)


\* --------------------------------------------------------------- database
\* Row constructors of the five tables (models.py).
StockRow(w, p, q) == [warehouse_id |-> w, product_id |-> p, quantity |-> q]

\* Movement(id=movement_id, product_id=product_id): the other columns NULL
NewMovement(e) ==
    [id |-> e.movement_id, product_id |-> e.product_id,
     source_warehouse_id |-> Null, departure_timestamp |-> Null,
     departure_quantity |-> Null, destination_warehouse_id |-> Null,
     arrival_timestamp |-> Null, arrival_quantity |-> Null,
     transfer_time |-> Null, quantity_difference |-> Null]

MovementColumns == DOMAIN NewMovement([movement_id |-> "", product_id |-> ""])

\* MovementEvent(...): processed_at is the insert's own clock reading, here
\* the inserting transaction (consumer, offset)
EventRow(e, at) ==
    [id |-> e.message_id, movement_id |-> e.movement_id,
     warehouse_id |-> e.warehouse_id, event_type |-> e.event_type,
     timestamp |-> e.timestamp, product_id |-> e.product_id,
     quantity |-> e.quantity, processed_at |-> at]

EmptyDb ==
    [products |-> {}, warehouses |-> {}, stocks |-> {}, movements |-> {},
     events |-> {}]

\* a stock lookup by warehouse alone
StockRows_ByWarehouse(d, w, p) == {r \in d.stocks : r.warehouse_id = w}

\* select(...).where(pk == ...) on the committed rows
StockRows(d, w, p) ==
    {r \in d.stocks : r.warehouse_id = w /\ r.product_id = p}
MovementRows(d, m) == {r \in d.movements : r.id = m}
EventRows(d, id) == {r \in d.events : r.id = id}

\* row keys, for row locks and pending inserts
ProductKey(e) == <<"products", e.product_id>>
WarehouseKey(e) == <<"warehouses", e.warehouse_id>>
StockKey(e) == <<"warehouse_stocks", e.warehouse_id, e.product_id>>
MovementKey(e) == <<"movements", e.movement_id>>
EventKey(e) == <<"movement_events", e.message_id>>

\* a journal check that never finds the record
is_event_processed_Never(d, message_id) == FALSE

\* MovementEventRepository.is_event_processed
is_event_processed(d, message_id) == EventRows(d, message_id) # {}

\* WarehouseService.process_movement_event, step 3: the signed delta
quantity_delta(e) ==
    IF e.event_type = "arrival" THEN e.quantity ELSE 0 - e.quantity

\* only the check on an existing row (lines 128-132), not the one on a
\* missing row (lines 141-148)
NegativeStock_ExistingOnly(stock, delta) ==
    IF stock # Null THEN The(stock) + delta < 0 ELSE FALSE

\* a missing row that is created whatever the sign of the delta
NegativeStock_MissingRowAllowed(stock, delta) ==
    stock # Null /\ The(stock) + delta < 0

\* create_or_update_stock: the two "raise ValueError" conditions
\* (stock is the loaded row's quantity, or Null when there is no row)
NegativeStock(stock, delta) ==
    IF stock # Null THEN The(stock) + delta < 0 ELSE delta < 0

\* a quantity that is overwritten with the delta
new_quantity_Overwrite(stock, delta) == delta

\* create_or_update_stock: the quantity written (update) or inserted
new_quantity(stock, delta) ==
    IF stock # Null THEN The(stock) + delta ELSE delta

\* a DEPARTURE that leaves an earlier departure_timestamp in place
ApplyHalf_KeepsFirstTimestamp(mv, e) ==
    IF e.event_type = "departure"
    THEN [mv EXCEPT !.source_warehouse_id = Some(e.warehouse_id),
                    !.departure_timestamp =
                        IF @ = Null THEN Some(e.timestamp) ELSE @,
                    !.departure_quantity = Some(e.quantity)]
    ELSE [mv EXCEPT !.destination_warehouse_id = Some(e.warehouse_id),
                    !.arrival_timestamp = Some(e.timestamp),
                    !.arrival_quantity = Some(e.quantity)]

\* an ARRIVAL that starts the row's halves afresh
ApplyHalf_ArrivalReplaces(mv, e) ==
    IF e.event_type = "departure"
    THEN [mv EXCEPT !.source_warehouse_id = Some(e.warehouse_id),
                    !.departure_timestamp = Some(e.timestamp),
                    !.departure_quantity = Some(e.quantity)]
    ELSE [mv EXCEPT !.destination_warehouse_id = Some(e.warehouse_id),
                    !.arrival_timestamp = Some(e.timestamp),
                    !.arrival_quantity = Some(e.quantity),
                    !.source_warehouse_id = Null,
                    !.departure_timestamp = Null,
                    !.departure_quantity = Null]

\* an ARRIVAL that sets destination_warehouse_id and arrival_timestamp but
\* not arrival_quantity
ApplyHalf_ArrivalWithoutQuantity(mv, e) ==
    IF e.event_type = "departure"
    THEN [mv EXCEPT !.source_warehouse_id = Some(e.warehouse_id),
                    !.departure_timestamp = Some(e.timestamp),
                    !.departure_quantity = Some(e.quantity)]
    ELSE [mv EXCEPT !.destination_warehouse_id = Some(e.warehouse_id),
                    !.arrival_timestamp = Some(e.timestamp)]

\* MovementRepository.create_or_update: the half set by the event
ApplyHalf(mv, e) ==
    IF e.event_type = "departure"
    THEN [mv EXCEPT !.source_warehouse_id = Some(e.warehouse_id),
                    !.departure_timestamp = Some(e.timestamp),
                    !.departure_quantity = Some(e.quantity)]
    ELSE [mv EXCEPT !.destination_warehouse_id = Some(e.warehouse_id),
                    !.arrival_timestamp = Some(e.timestamp),
                    !.arrival_quantity = Some(e.quantity)]

\* a derivation that keeps the transfer_time it finds when the arrival is
\* before the departure
Derive_KeepsTransferTime(mv) ==
    IF mv.departure_timestamp # Null /\ mv.arrival_timestamp # Null
    THEN [mv EXCEPT
            !.transfer_time =
                IF The(mv.arrival_timestamp) >= The(mv.departure_timestamp)
                THEN Some(The(mv.arrival_timestamp) - The(mv.departure_timestamp))
                ELSE @,
            !.quantity_difference =
                IF mv.departure_quantity # Null /\ mv.arrival_quantity # Null
                THEN Some(The(mv.arrival_quantity) - The(mv.departure_quantity))
                ELSE Null]
    ELSE mv

\* MovementRepository.create_or_update: transfer_time, quantity_difference
Derive(mv) ==
    IF mv.departure_timestamp # Null /\ mv.arrival_timestamp # Null
    THEN [mv EXCEPT
            !.transfer_time =
                IF The(mv.arrival_timestamp) >= The(mv.departure_timestamp)
                THEN Some(The(mv.arrival_timestamp) - The(mv.departure_timestamp))
                ELSE Null,
            !.quantity_difference =
                IF mv.departure_quantity # Null /\ mv.arrival_quantity # Null
                THEN Some(The(mv.arrival_quantity) - The(mv.departure_quantity))
                ELSE Null]
    ELSE mv

\* a create_or_update that takes product_id from every event
create_or_update_Reassign(loaded, e) ==
    Derive(ApplyHalf([(IF loaded = Null THEN NewMovement(e) ELSE The(loaded))
                         EXCEPT !.product_id = e.product_id], e))

\* MovementRepository.create_or_update on the loaded row (Null: none found)
create_or_update(loaded, e) ==
    Derive(ApplyHalf(IF loaded = Null THEN NewMovement(e) ELSE The(loaded), e))

\* The UPDATE the unit of work emits for a loaded row: only the columns whose
\* value differs from the loaded one are written to the current row.
FlushUpdate(current, loaded, new) ==
    [col \in MovementColumns |->
        IF new[col] # loaded[col] THEN new[col] ELSE current[col]]

\* _invalidate_cache: the two keys
stock_cache_key(e) == <<"stock", e.warehouse_id, e.product_id>>
movement_cache_key(e) == <<"movement", e.movement_id>>


\* ------------------------------------------------------------------ state
VARIABLES
    db,                     \* the committed rows of the five tables
    log,                    \* log[c]: the messages of c's partition, offset 0 first
    position,               \* position[c]: next offset getmany() fetches
    committed,              \* committed[c]: offset committed to the broker
    offset,                 \* offset[c]: offset of the message being processed
    last_processed_offset,  \* the loop's local of that name (-1: none)
    pc,                     \* pc[c]: the await the consumer task is at
    session,                \* session[c]: the open AsyncSession's transaction
    cache_deletes,          \* the cache deletes issued: by whom, for which offset
    outcome,                \* outcome[c]: per handled offset, how it ended
    cache,                  \* the Redis keys that are set, each with its value
    redis,                  \* whether CacheManager's client works
    reader,                 \* the API request being served, and the last one
    running,                \* KafkaConsumerService._running
    consumer,               \* KafkaConsumerService.consumer: Null or a client
    clients,                \* the AIOKafkaConsumer objects created, by number
    task,                   \* where the task running start() is
    shutdown,               \* where the lifespan's shutdown part is
    batch                   \* batch[c]: offset of the first message getmany() returned

\* the state of the consumer service and of the application's lifespan
lifecycle == <<running, consumer, clients, task, shutdown>>

vars ==
    <<db, log, position, committed, offset, last_processed_offset, pc, session,
      cache_deletes, outcome, cache, redis, reader, lifecycle, batch>>

\* start() has started its consumer and is in _consume_messages; no shutdown
\* has been requested
Consuming ==
    /\ running = TRUE
    /\ consumer = Some(1)
    /\ clients = <<"started">>
    /\ task = "consume"
    /\ shutdown = "serving"

\* CacheManager.delete(key) called by consumer c for the message at offset o;
\* done: the key was deleted (else the call logged its failure and returned)
CacheDelete(c, o, key) ==
    [consumer |-> c, offset |-> o, key |-> key, done |-> redis = "connected"]

\* CacheManager.get: the value under the key, Null when the key is not set
\* or the client is not connected or raises
get(entries, key) ==
    IF redis = "connected" /\ \E x \in entries : x.key = key
    THEN Some((CHOOSE x \in entries : x.key = key).value)
    ELSE Null

\* a set that stores nothing
set_Nothing(entries, key, value) == entries

\* CacheManager.set: the entries after it (unchanged when the client is not
\* connected or raises)
set(entries, key, value) ==
    IF redis = "connected"
    THEN {x \in entries : x.key # key} \cup {[key |-> key, value |-> value]}
    ELSE entries

\* CacheManager.delete: the entries after it (unchanged when the client is
\* not connected or raises)
delete(entries, key) ==
    IF redis = "connected" THEN {x \in entries : x.key # key} ELSE entries

\* no request is being served (last: the last response given, Null: none)
IdleReader(last) == [pc |-> "idle", key |-> Null, value |-> Null, last |-> last]

\* A session with no transaction state.  loaded_*: the rows already in the
\* session's identity map; inserted / locked: keys of pending INSERTs and of
\* row locks held; stock / movement: the values the unit of work will write.
NoSession ==
    [event |-> Null, inserted |-> {}, locked |-> {},
     loaded_stock |-> Null, loaded_movement |-> Null,
     stock |-> Null, movement |-> Null]

InTransaction ==
    {"product", "product_flush", "warehouse", "warehouse_flush", "stock",
     "stock_flush", "movement", "movement_flush", "event", "cache_stock",
     "cache_movement", "commit"}

Event(c) == The(session[c].event)

\* an INSERT that never waits for another transaction's pending INSERT
InsertPending_Never(c, key) == FALSE

\* another open transaction has a pending INSERT of this key / holds this row
InsertPending(c, key) == key \in session[Peer(c)].inserted
RowLocked(c, key) == key \in session[Peer(c)].locked

\* _consume_messages, lines 131-136: a handled message moves the local on
Handled(c, how) ==
    /\ last_processed_offset' = [last_processed_offset EXCEPT ![c] = offset[c]]
    /\ outcome' = [outcome EXCEPT ![c] = Append(@, how)]
    /\ offset' = [offset EXCEPT ![c] = @ + 1]
    /\ pc' = [pc EXCEPT ![c] = "next"]

\* _process_message_wrapper, lines 220-233: rollback, return False
Failed(c, how) ==
    /\ session' = [session EXCEPT ![c] = NoSession]
    /\ outcome' = [outcome EXCEPT ![c] = Append(@, how)]
    /\ offset' = [offset EXCEPT ![c] = @ + 1]
    /\ pc' = [pc EXCEPT ![c] = "next"]
    /\ UNCHANGED <<lifecycle, batch,
                   db, log, position, committed, last_processed_offset,
                   cache_deletes, cache, redis, reader>>

\* ---------------------------------------------------------------- actions
\* getmany(): a non-empty run of the partition's next records
Poll(c) ==
    /\ pc[c] = "idle"
    /\ position[c] < Len(log[c])
    /\ \E n \in 1 .. (Len(log[c]) - position[c]) :
          position' = [position EXCEPT ![c] = @ + n]
    /\ offset' = [offset EXCEPT ![c] = position[c]]
    /\ last_processed_offset' = [last_processed_offset EXCEPT ![c] = 0 - 1]
    /\ batch' = [batch EXCEPT ![c] = position[c]]
    /\ pc' = [pc EXCEPT ![c] = "next"]
    /\ UNCHANGED <<lifecycle, db, log, committed, session, cache_deletes, cache,
                   redis, reader, outcome>>

\* _process_message_wrapper up to the first await of process_movement_event:
\* decode, validate, prepare, open the session, is_event_processed
Receive(c) ==
    /\ pc[c] = "next"
    /\ offset[c] < position[c]
    /\ LET m == log[c][offset[c] + 1] IN
       IF ~Wellformed(m)
       THEN /\ Handled(c, "malformed")
            /\ UNCHANGED <<lifecycle, batch,
                           db, log, position, committed, session,
                           cache_deletes, cache, redis, reader>>
       ELSE IF is_event_processed(db, prepare_event_data(m).message_id)
       THEN /\ Handled(c, "already_processed")
            /\ UNCHANGED <<lifecycle, batch,
                           db, log, position, committed, session,
                           cache_deletes, cache, redis, reader>>
       ELSE /\ session' = [session EXCEPT ![c] =
                  [NoSession EXCEPT !.event = Some(prepare_event_data(m))]]
            /\ pc' = [pc EXCEPT ![c] = "product"]
            /\ UNCHANGED <<lifecycle, batch,
                           db, log, position, committed, offset,
                           last_processed_offset, cache_deletes, cache, redis, reader, outcome>>


\* The quantity create_or_update_stock computes from: the WarehouseStock
\* object already in the session's identity map if there is one (Product.stocks
\* and Warehouse.stocks are lazy="selectin", and get_stock's select sets no
\* populate_existing, so the locked row's values do not replace a loaded
\* object's), else the row SELECT ... FOR UPDATE returns.
stock_quantity(loaded, rows) ==
    IF loaded # Null THEN loaded
    ELSE IF rows # {} THEN Some((The(rows)).quantity)
    ELSE Null

\* Relationship loading of Product (stocks, movements) into the identity map
LoadWithProduct(c) ==
    LET e == Event(c)
        st == StockRows(db, e.warehouse_id, e.product_id)
        mv == {r \in MovementRows(db, e.movement_id) :
                  r.product_id = e.product_id}
    IN [session[c] EXCEPT
          !.loaded_stock = IF st # {} THEN Some((The(st)).quantity) ELSE Null,
          !.loaded_movement = IF mv # {} THEN Some(The(mv)) ELSE Null]

\* Relationship loading of Warehouse (stocks, movements_as_source,
\* movements_as_destination); objects already loaded keep their values
LoadWithWarehouse(c) ==
    LET e == Event(c)
        st == StockRows(db, e.warehouse_id, e.product_id)
        mv == {r \in MovementRows(db, e.movement_id) :
                  \/ r.source_warehouse_id = Some(e.warehouse_id)
                  \/ r.destination_warehouse_id = Some(e.warehouse_id)}
    IN [session[c] EXCEPT
          !.loaded_stock =
              IF @ = Null /\ st # {} THEN Some((The(st)).quantity) ELSE @,
          !.loaded_movement =
              IF @ = Null /\ mv # {} THEN Some(The(mv)) ELSE @]

\* ProductRepository.get_by_id (with the selectin loads of the Product)
GetProduct(c) ==
    /\ pc[c] = "product"
    /\ IF Event(c).product_id \in db.products
       THEN /\ session' = [session EXCEPT ![c] = LoadWithProduct(c)]
            /\ pc' = [pc EXCEPT ![c] = "warehouse"]
       ELSE /\ pc' = [pc EXCEPT ![c] = "product_flush"]
            /\ UNCHANGED session
    /\ UNCHANGED <<lifecycle, batch, db, log, position, committed, offset,
                   last_processed_offset, cache_deletes, cache, redis, reader, outcome>>

\* ProductRepository.get_or_create: add, flush (INSERT), refresh
FlushProduct(c) ==
    /\ pc[c] = "product_flush"
    /\ ~InsertPending(c, ProductKey(Event(c)))
    /\ IF Event(c).product_id \in db.products
       THEN Failed(c, "db_error")
       ELSE /\ session' = [session EXCEPT
                  ![c].inserted = @ \cup {ProductKey(Event(c))}]
            /\ pc' = [pc EXCEPT ![c] = "warehouse"]
            /\ UNCHANGED <<lifecycle, batch,
                           db, log, position, committed, offset,
                           last_processed_offset, cache_deletes, cache, redis, reader, outcome>>

\* a lookup of the warehouse that goes on without creating a missing row
GetWarehouse_NoCreate(c) ==
    /\ pc[c] = "warehouse"
    /\ IF Event(c).warehouse_id \in db.warehouses
       THEN session' = [session EXCEPT ![c] = LoadWithWarehouse(c)]
       ELSE UNCHANGED session
    /\ pc' = [pc EXCEPT ![c] = "stock"]
    /\ UNCHANGED <<lifecycle, batch, db, log, position, committed, offset,
                   last_processed_offset, cache_deletes, cache, redis, reader, outcome>>

\* WarehouseRepository.get_by_id (with the selectin loads of the Warehouse)
GetWarehouse(c) ==
    /\ pc[c] = "warehouse"
    /\ IF Event(c).warehouse_id \in db.warehouses
       THEN /\ session' = [session EXCEPT ![c] = LoadWithWarehouse(c)]
            /\ pc' = [pc EXCEPT ![c] = "stock"]
       ELSE /\ pc' = [pc EXCEPT ![c] = "warehouse_flush"]
            /\ UNCHANGED session
    /\ UNCHANGED <<lifecycle, batch, db, log, position, committed, offset,
                   last_processed_offset, cache_deletes, cache, redis, reader, outcome>>

\* WarehouseRepository.get_or_create: add, flush (INSERT), refresh
FlushWarehouse(c) ==
    /\ pc[c] = "warehouse_flush"
    /\ ~InsertPending(c, WarehouseKey(Event(c)))
    /\ IF Event(c).warehouse_id \in db.warehouses
       THEN Failed(c, "db_error")
       ELSE /\ session' = [session EXCEPT
                  ![c].inserted = @ \cup {WarehouseKey(Event(c))}]
            /\ pc' = [pc EXCEPT ![c] = "stock"]
            /\ UNCHANGED <<lifecycle, batch,
                           db, log, position, committed, offset,
                           last_processed_offset, cache_deletes, cache, redis, reader, outcome>>

\* create_or_update_stock up to its flush: get_stock(for_update=True), the
\* new quantity, the negative-stock checks
GetStock(c) ==
    /\ pc[c] = "stock"
    /\ LET e == Event(c)
           rows == StockRows(db, e.warehouse_id, e.product_id)
           stock == stock_quantity(session[c].loaded_stock, rows)
       IN /\ rows # {} => ~RowLocked(c, StockKey(e))
          /\ IF NegativeStock(stock, quantity_delta(e))
             THEN Failed(c, "negative_stock")
             ELSE /\ session' = [session EXCEPT
                        ![c].locked =
                            IF rows # {} THEN @ \cup {StockKey(e)} ELSE @,
                        ![c].loaded_stock = stock,
                        ![c].stock = Some(new_quantity(stock, quantity_delta(e)))]
                  /\ pc' = [pc EXCEPT ![c] = "stock_flush"]
                  /\ UNCHANGED <<lifecycle, batch,
                                 db, log, position, committed, offset,
                                 last_processed_offset, cache_deletes, cache, redis,
                                 reader, outcome>>

\* create_or_update_stock: flush (UPDATE of the locked row, or INSERT), refresh
FlushStock(c) ==
    /\ pc[c] = "stock_flush"
    /\ LET e == Event(c) IN
       IF session[c].loaded_stock # Null
       THEN /\ pc' = [pc EXCEPT ![c] = "movement"]
            /\ UNCHANGED <<lifecycle, batch,
                           db, log, position, committed, offset, session,
                           last_processed_offset, cache_deletes, cache, redis, reader, outcome>>
       ELSE /\ ~InsertPending(c, StockKey(e))
            /\ IF StockRows(db, e.warehouse_id, e.product_id) # {}
               THEN Failed(c, "db_error")
               ELSE /\ session' = [session EXCEPT
                          ![c].inserted = @ \cup {StockKey(e)}]
                    /\ pc' = [pc EXCEPT ![c] = "movement"]
                    /\ UNCHANGED <<lifecycle, batch,
                                   db, log, position, committed, offset,
                                   last_processed_offset, cache_deletes, cache, redis,
                                   reader, outcome>>


\* MovementRepository.create_or_update up to its flush: get_by_id (the object
\* in the identity map if already loaded), the half, the derived fields
GetMovement(c) ==
    /\ pc[c] = "movement"
    /\ LET e == Event(c)
           rows == MovementRows(db, e.movement_id)
           loaded == IF session[c].loaded_movement # Null
                     THEN session[c].loaded_movement
                     ELSE IF rows # {} THEN Some(The(rows)) ELSE Null
       IN session' = [session EXCEPT
              ![c].loaded_movement = loaded,
              ![c].movement = Some(create_or_update(loaded, e))]
    /\ pc' = [pc EXCEPT ![c] = "movement_flush"]
    /\ UNCHANGED <<lifecycle, batch, db, log, position, committed, offset,
                   last_processed_offset, cache_deletes, cache, redis, reader, outcome>>

\* MovementRepository.create_or_update: flush (INSERT of the new row, or
\* UPDATE of the changed columns, which takes the row lock), refresh
FlushMovement(c) ==
    /\ pc[c] = "movement_flush"
    /\ LET e == Event(c) IN
       IF session[c].loaded_movement = Null
       THEN /\ ~InsertPending(c, MovementKey(e))
            /\ IF MovementRows(db, e.movement_id) # {}
               THEN Failed(c, "db_error")
               ELSE /\ session' = [session EXCEPT
                          ![c].inserted = @ \cup {MovementKey(e)}]
                    /\ pc' = [pc EXCEPT ![c] = "event"]
                    /\ UNCHANGED <<lifecycle, batch,
                                   db, log, position, committed, offset,
                                   last_processed_offset, cache_deletes, cache, redis,
                                   reader, outcome>>
       ELSE /\ session[c].movement # session[c].loaded_movement
                  => ~RowLocked(c, MovementKey(e))
            /\ session' = [session EXCEPT
                  ![c].locked =
                      IF session[c].movement # session[c].loaded_movement
                      THEN @ \cup {MovementKey(e)} ELSE @]
            /\ pc' = [pc EXCEPT ![c] = "event"]
            /\ UNCHANGED <<lifecycle, batch,
                           db, log, position, committed, offset,
                           last_processed_offset, cache_deletes, cache, redis, reader, outcome>>

\* a journal without a primary key
EventPkViolation_Off(d, e) == FALSE

\* A committed row with this primary key makes the INSERT fail
\* (MovementEvent.id is the primary key)
EventPkViolation(d, e) == EventRows(d, e.message_id) # {}

\* a journal insert that first locks the stock rows of the warehouses the
\* loaded movement names
CreateEvent_LocksMovementStocks(c) ==
    /\ pc[c] = "event"
    /\ LET e == Event(c)
           mv == session[c].loaded_movement
           named == IF mv = Null THEN {}
                    ELSE The(mv).source_warehouse_id
                            \cup The(mv).destination_warehouse_id
           keys == {<<"warehouse_stocks", w, e.product_id>> : w \in named}
                      \ {StockKey(e)}
       IN /\ \A k \in keys : ~RowLocked(c, k)
          /\ ~InsertPending(c, EventKey(e))
          /\ IF EventPkViolation(db, e)
             THEN Failed(c, "db_error")
             ELSE /\ session' = [session EXCEPT
                        ![c].inserted = @ \cup {EventKey(e)},
                        ![c].locked = @ \cup keys]
                  /\ pc' = [pc EXCEPT ![c] = "cache_stock"]
                  /\ UNCHANGED <<lifecycle, batch,
                                 db, log, position, committed, offset,
                                 last_processed_offset, cache_deletes, cache, redis,
                                 reader, outcome>>

\* MovementEventRepository.create: add, flush (INSERT), refresh
CreateEvent(c) ==
    /\ pc[c] = "event"
    /\ ~InsertPending(c, EventKey(Event(c)))
    /\ IF EventPkViolation(db, Event(c))
       THEN Failed(c, "db_error")
       ELSE /\ session' = [session EXCEPT
                  ![c].inserted = @ \cup {EventKey(Event(c))}]
            /\ pc' = [pc EXCEPT ![c] = "cache_stock"]
            /\ UNCHANGED <<lifecycle, batch,
                           db, log, position, committed, offset,
                           last_processed_offset, cache_deletes, cache, redis, reader, outcome>>

\* an invalidation whose failed delete propagates and fails the event
DeleteStockCache_Raises(c) ==
    /\ pc[c] = "cache_stock"
    /\ IF redis = "connected"
       THEN /\ cache_deletes' = cache_deletes \cup
                  {CacheDelete(c, offset[c], stock_cache_key(Event(c)))}
            /\ cache' = delete(cache, stock_cache_key(Event(c)))
            /\ pc' = [pc EXCEPT ![c] = "cache_movement"]
            /\ UNCHANGED <<lifecycle, batch,
                           db, log, position, committed, offset,
                           last_processed_offset, session, outcome, redis,
                           reader>>
       ELSE Failed(c, "cache_error")

\* _invalidate_cache: cache_manager.delete(stock_cache_key)
DeleteStockCache(c) ==
    /\ pc[c] = "cache_stock"
    /\ cache_deletes' = cache_deletes \cup
          {CacheDelete(c, offset[c], stock_cache_key(Event(c)))}
    /\ cache' = delete(cache, stock_cache_key(Event(c)))
    /\ pc' = [pc EXCEPT ![c] = "cache_movement"]
    /\ UNCHANGED <<lifecycle, batch, db, log, position, committed, offset,
                   last_processed_offset, session, outcome, redis, reader>>

\* _invalidate_cache: cache_manager.delete(movement_cache_key)
DeleteMovementCache(c) ==
    /\ pc[c] = "cache_movement"
    /\ cache_deletes' = cache_deletes \cup
          {CacheDelete(c, offset[c], movement_cache_key(Event(c)))}
    /\ cache' = delete(cache, movement_cache_key(Event(c)))
    /\ pc' = [pc EXCEPT ![c] = "commit"]
    /\ UNCHANGED <<lifecycle, batch, db, log, position, committed, offset,
                   last_processed_offset, session, outcome, redis, reader>>

\* a commit whose journal keeps one record per movement: the new record
\* replaces the movement's earlier ones
ApplyWrites_JournalPerMovement(d, s, at) ==
    LET e == The(s.event) IN
    [products |-> d.products \cup
        (IF ProductKey(e) \in s.inserted THEN {e.product_id} ELSE {}),
     warehouses |-> d.warehouses \cup
        (IF WarehouseKey(e) \in s.inserted THEN {e.warehouse_id} ELSE {}),
     stocks |->
        IF StockKey(e) \in s.inserted
        THEN d.stocks \cup
                {StockRow(e.warehouse_id, e.product_id, The(s.stock))}
        ELSE IF StockKey(e) \in s.locked /\ s.stock # s.loaded_stock
        THEN {IF r \in StockRows(d, e.warehouse_id, e.product_id)
              THEN [r EXCEPT !.quantity = The(s.stock)] ELSE r : r \in d.stocks}
        ELSE d.stocks,
     movements |->
        IF MovementKey(e) \in s.inserted
        THEN d.movements \cup {The(s.movement)}
        ELSE IF MovementKey(e) \in s.locked
        THEN {IF r.id = e.movement_id
              THEN FlushUpdate(r, The(s.loaded_movement), The(s.movement))
              ELSE r : r \in d.movements}
        ELSE d.movements,
     events |->
        IF EventKey(e) \in s.inserted
        THEN {r \in d.events : r.movement_id # e.movement_id}
                \cup {EventRow(e, at)}
        ELSE d.events]

\* The committed rows after COMMIT of session s (at: the transaction's tag)
ApplyWrites(d, s, at) ==
    LET e == The(s.event) IN
    [products |-> d.products \cup
        (IF ProductKey(e) \in s.inserted THEN {e.product_id} ELSE {}),
     warehouses |-> d.warehouses \cup
        (IF WarehouseKey(e) \in s.inserted THEN {e.warehouse_id} ELSE {}),
     stocks |->
        IF StockKey(e) \in s.inserted
        THEN d.stocks \cup
                {StockRow(e.warehouse_id, e.product_id, The(s.stock))}
        ELSE IF StockKey(e) \in s.locked /\ s.stock # s.loaded_stock
        THEN {IF r \in StockRows(d, e.warehouse_id, e.product_id)
              THEN [r EXCEPT !.quantity = The(s.stock)] ELSE r : r \in d.stocks}
        ELSE d.stocks,
     movements |->
        IF MovementKey(e) \in s.inserted
        THEN d.movements \cup {The(s.movement)}
        ELSE IF MovementKey(e) \in s.locked
        THEN {IF r.id = e.movement_id
              THEN FlushUpdate(r, The(s.loaded_movement), The(s.movement))
              ELSE r : r \in d.movements}
        ELSE d.movements,
     events |-> d.events \cup
        (IF EventKey(e) \in s.inserted THEN {EventRow(e, at)} ELSE {})]

\* a commit that publishes the event's rows but not its journal row
Commit_WithoutJournal(c) ==
    /\ pc[c] = "commit"
    /\ db' = [ApplyWrites(db, session[c], <<c, offset[c]>>)
                 EXCEPT !.events = db.events]
    /\ session' = [session EXCEPT ![c] = NoSession]
    /\ Handled(c, "committed")
    /\ UNCHANGED <<lifecycle, batch,
                   log, position, committed, cache_deletes, cache, redis, reader>>

\* _process_message_wrapper, lines 208-213: session.commit(), return True
Commit(c) ==
    /\ pc[c] = "commit"
    /\ db' = ApplyWrites(db, session[c], <<c, offset[c]>>)
    /\ session' = [session EXCEPT ![c] = NoSession]
    /\ Handled(c, "committed")
    /\ UNCHANGED <<lifecycle, batch,
                   log, position, committed, cache_deletes, cache, redis, reader>>

\* A database statement or the commit raises SQLAlchemyError (connection
\* lost, server error): lines 220-226
DbError(c) ==
    /\ pc[c] \in InTransaction \ {"cache_stock", "cache_movement"}
    /\ Failed(c, "db_error")

\* an offset commit of the last processed offset itself, not the one after it
CommitOffsets_LastOffset(c) ==
    /\ pc[c] = "next"
    /\ offset[c] = position[c]
    /\ committed' =
          IF last_processed_offset[c] >= 0
          THEN [committed EXCEPT ![c] = last_processed_offset[c]]
          ELSE committed
    /\ pc' = [pc EXCEPT ![c] = "idle"]
    /\ UNCHANGED <<lifecycle, batch,
                   db, log, position, offset, last_processed_offset, session,
                   cache_deletes, cache, redis, reader, outcome>>

\* an offset commit of the end of the fetched batch, whatever failed in it
CommitOffsets_BatchEnd(c) ==
    /\ pc[c] = "next"
    /\ offset[c] = position[c]
    /\ committed' = [committed EXCEPT ![c] = position[c]]
    /\ pc' = [pc EXCEPT ![c] = "idle"]
    /\ UNCHANGED <<lifecycle, batch, db, log, position, offset,
                   last_processed_offset, session, cache_deletes, cache, redis,
                   reader, outcome>>

\* _consume_messages, lines 138-143: after the partition's batch
CommitOffsets(c) ==
    /\ pc[c] = "next"
    /\ offset[c] = position[c]
    /\ committed' =
          IF last_processed_offset[c] >= 0
          THEN [committed EXCEPT ![c] = last_processed_offset[c] + 1]
          ELSE committed
    /\ pc' = [pc EXCEPT ![c] = "idle"]
    /\ UNCHANGED <<lifecycle, batch,
                   db, log, position, offset, last_processed_offset, session,
                   cache_deletes, cache, redis, reader, outcome>>

\* ------------------------------------------------------------ the inputs
\* Message ids are named 1, 2, ...: one name per message a run can hold.
MessageIds == 1 .. (MaxLog + MaxLogPeer)
Quantities == (0 - MaxQty) .. MaxQty
\* one event string in the enum's own case, one that validate_event_type
\* has to lower
EventStrings == {"arrival", "DEPARTURE"}

MessagesOver(ids, movs, whs, prods, tss, qtys) ==
    {RawMessage("json", id, 0, Some(mov), wh, IsoTs(ts), ev, prod, qty) :
        id \in ids, mov \in movs, wh \in whs, prod \in prods, ts \in tss,
        ev \in EventStrings, qty \in qtys}

\* one message per way of being malformed
MalformedMessages ==
    {RawMessage("not_utf8", 1, 0, Some("M1"), "W1", IsoTs(10), "arrival", "P1", 1),
     RawMessage("not_json", 1, 0, Some("M1"), "W1", IsoTs(10), "arrival", "P1", 1),
     RawMessage("json", 1, 0, Null, "W1", IsoTs(10), "arrival", "P1", 1),
     RawMessage("json", 1, 0 - 1, Some("M1"), "W1", IsoTs(10), "arrival", "P1", 1),
     RawMessage("json", 1, 0, Some("M1"), "W1", IsoTs(10), "return", "P1", 1),
     RawMessage("json", 1, 0, Some("M1"), "W1", BadTs, "arrival", "P1", 1)}

\* Message ids matter only up to equality: a run names them in the order of
\* their first use (c1's log, then c2's).
RECURSIVE FirstUseOrder(_, _)
FirstUseOrder(s, used) ==
    IF s = <<>> THEN TRUE
    ELSE IF ~Wellformed(Head(s)) THEN FirstUseOrder(Tail(s), used)
    ELSE /\ Head(s).id <= used + 1
         /\ FirstUseOrder(Tail(s),
                          IF Head(s).id > used THEN Head(s).id ELSE used)

\* Two peers working at once: messages on one stock row and one movement
ConcurrentMessages ==
    MessagesOver(MessageIds, {"M1"}, {"W1"}, {"P1"}, {10}, Quantities \ {0})

\* One consumer alone: any message
Messages ==
    MessagesOver(MessageIds, {"M1"}, {"W1"}, {"P1"}, {10, 20}, Quantities)
        \cup MalformedMessages

Range(s) == {s[i] : i \in 1 .. Len(s)}

\* longest log of a consumer's partition
MaxLogOf(c) == IF c = "c1" THEN MaxLog ELSE MaxLogPeer

\* The partition logs a run may hold
AllowedLogs(l) ==
    /\ l["c2"] # <<>> =>
          Range(l["c1"]) \cup Range(l["c2"]) \subseteq ConcurrentMessages
    /\ FirstUseOrder(l["c1"] \o l["c2"], 0)

\* The upstream producer appends a message to a partition
Produce(c) ==
    /\ Len(log[c]) < MaxLogOf(c)
    /\ \E m \in Messages :
          /\ log' = [log EXCEPT ![c] = Append(@, m)]
          /\ AllowedLogs(log')
    /\ UNCHANGED <<lifecycle, batch,
                   db, position, committed, offset, last_processed_offset,
                   pc, session, cache_deletes, cache, redis, reader, outcome>>

Init ==
    /\ db = EmptyDb
    /\ log = [c \in Consumers |-> <<>>]
    /\ position = [c \in Consumers |-> 0]
    /\ committed = [c \in Consumers |-> 0]
    /\ offset = [c \in Consumers |-> 0]
    /\ last_processed_offset = [c \in Consumers |-> 0 - 1]
    /\ pc = [c \in Consumers |-> "idle"]
    /\ session = [c \in Consumers |-> NoSession]
    /\ cache_deletes = {}
    /\ outcome = [c \in Consumers |-> <<>>]
    /\ cache = {}
    /\ redis = "connected"
    /\ reader = IdleReader(Null)
    /\ Consuming
    /\ batch = [c \in Consumers |-> 0]

Next ==
    \E c \in Consumers :
        \/ Produce(c)
        \/ Poll(c)
        \/ Receive(c)
        \/ GetProduct(c)
        \/ FlushProduct(c)
        \/ GetWarehouse(c)
        \/ FlushWarehouse(c)
        \/ GetStock(c)
        \/ FlushStock(c)
        \/ GetMovement(c)
        \/ FlushMovement(c)
        \/ CreateEvent(c)
        \/ DeleteStockCache(c)
        \/ DeleteMovementCache(c)
        \/ Commit(c)
        \/ DbError(c)
        \/ CommitOffsets(c)

Spec == Init /\ [][Next]_vars


\* ------------------------------------------- the repositories, one session
\* The repositories and the service called one after the other in a single
\* session, as the unit tests call them: no peer, every call sees the rows
\* the call before left.
MaxCalls == 3
MaxDelta == 2

RepoMovements == {"M1", "M2"}
RepoWarehouses == {"W1", "W2"}
RepoProducts == {"P1", "P2"}
RepoTimestamps == {10, 20}

\* the dicts _prepare_event_data can hand over
RepoEvents(ids, movs) ==
    [message_id : ids, movement_id : movs, warehouse_id : RepoWarehouses,
     timestamp : RepoTimestamps, event_type : EventTypeValues,
     product_id : RepoProducts, quantity : Quantities]

\* a missing row that is created for delta > 0 only
create_or_update_stock_NoZeroRow(d, w, p, delta) ==
    LET rows == StockRows(d, w, p)
        stock == IF rows # {} THEN Some((The(rows)).quantity) ELSE Null
    IN IF NegativeStock(stock, delta) \/ (rows = {} /\ delta = 0)
       THEN [db |-> d, raised |-> TRUE, flushed |-> FALSE]
       ELSE [db |-> [d EXCEPT !.stocks = (@ \ rows) \cup
                        {StockRow(w, p, new_quantity(stock, delta))}],
             raised |-> FALSE, flushed |-> TRUE]

\* WarehouseStockRepository.create_or_update_stock in a session that sees
\* rows d: the rows after it, whether it raised ValueError, whether it
\* reached session.flush()
create_or_update_stock(d, w, p, delta) ==
    LET rows == StockRows(d, w, p)
        stock == IF rows # {} THEN Some((The(rows)).quantity) ELSE Null
    IN IF NegativeStock(stock, delta)
       THEN [db |-> d, raised |-> TRUE, flushed |-> FALSE]
       ELSE [db |-> [d EXCEPT !.stocks = (@ \ rows) \cup
                        {StockRow(w, p, new_quantity(stock, delta))}],
             raised |-> FALSE, flushed |-> TRUE]

\* MovementRepository.create_or_update in a session that sees rows d
movement_create_or_update(d, e) ==
    LET rows == MovementRows(d, e.movement_id)
        loaded == IF rows # {} THEN Some(The(rows)) ELSE Null
    IN [d EXCEPT !.movements = (@ \ rows) \cup {create_or_update(loaded, e)}]

\* WarehouseService.process_movement_event followed by the wrapper's commit
\* or rollback, with no other transaction running: the committed rows after
\* it and how it ended.  (processed_at, the insert's clock reading, is left
\* at 0: rows are compared without it.)
process_movement_event(d, e) ==
    IF is_event_processed(d, e.message_id)
    THEN [db |-> d, result |-> "already_processed"]
    ELSE LET d1 == [d EXCEPT !.products = @ \cup {e.product_id},
                             !.warehouses = @ \cup {e.warehouse_id}]
             st == create_or_update_stock(d1, e.warehouse_id, e.product_id,
                                          quantity_delta(e))
             d2 == movement_create_or_update(st.db, e)
         IN IF st.raised
            THEN [db |-> d, result |-> "negative_stock"]
            ELSE [db |-> [d2 EXCEPT !.events = @ \cup {EventRow(e, 0)}],
                  result |-> "committed"]

\* what the session is used for in a run
RepoModes == {"stock_repository", "movement_repository", "service"}

Calls == log["c1"]
Results == outcome["c1"]

Called(call, result) ==
    /\ log' = [log EXCEPT !["c1"] = Append(@, call)]
    /\ outcome' = [outcome EXCEPT !["c1"] = Append(@, result)]
    /\ UNCHANGED <<lifecycle, batch,
                   position, committed, offset, last_processed_offset, pc,
                   session, cache_deletes, cache, redis, reader>>

\* a call of create_or_update_stock(warehouse_id, product_id, quantity_delta)
StockCall ==
    /\ pc["c1"] = "stock_repository"
    /\ Len(Calls) < MaxCalls
    /\ \E w \in RepoWarehouses, delta \in (0 - MaxDelta) .. MaxDelta :
          LET r == create_or_update_stock(db, w, "P1", delta) IN
          /\ db' = r.db
          /\ Called([warehouse_id |-> w, product_id |-> "P1",
                     quantity_delta |-> delta],
                    [raised |-> r.raised, flushed |-> r.flushed])

\* a call of MovementRepository.create_or_update(event_data)
MovementCall ==
    /\ pc["c1"] = "movement_repository"
    /\ Len(Calls) < MaxCalls
    /\ \E e \in RepoEvents({Len(Calls) + 1}, {"M1"}) :
          /\ db' = movement_create_or_update(db, e)
          /\ Called(e, "ok")

\* one message through process_movement_event and the commit or rollback
\* (the first event names its movement, warehouse and product M1, W1, P1)
ServiceCall ==
    /\ pc["c1"] = "service"
    /\ Len(Calls) < MaxCalls
    /\ \E e \in RepoEvents({Len(Calls) + 1}, RepoMovements) :
          /\ Calls = <<>> =>
                <<e.movement_id, e.warehouse_id, e.product_id>> =
                    <<"M1", "W1", "P1">>
          /\ LET r == process_movement_event(db, e) IN
             /\ db' = r.db
             /\ Called(e, r.result)

RepoInit ==
    /\ db = EmptyDb
    /\ log = [c \in Consumers |-> <<>>]
    /\ position = [c \in Consumers |-> 0]
    /\ committed = [c \in Consumers |-> 0]
    /\ offset = [c \in Consumers |-> 0]
    /\ last_processed_offset = [c \in Consumers |-> 0 - 1]
    /\ \E mode \in RepoModes : pc = [c \in Consumers |->
                                        IF c = "c1" THEN mode ELSE "idle"]
    /\ session = [c \in Consumers |-> NoSession]
    /\ cache_deletes = {}
    /\ outcome = [c \in Consumers |-> <<>>]
    /\ cache = {}
    /\ redis = "connected"
    /\ reader = IdleReader(Null)
    /\ Consuming
    /\ batch = [c \in Consumers |-> 0]

RepoNext ==
    \/ StockCall
    \/ MovementCall
    \/ ServiceCall

RepositorySpec == RepoInit /\ [][RepoNext]_vars


\* ------------------------------------------------- the read path and Redis
\* One consumer processing events of one movement on one stock row, the API
\* serving one request at a time for the two keys those events invalidate,
\* and a Redis client that may stop working and recover.
MaxLogCached == 2

ReaderKeys == {<<"stock", "W1", "P1">>, <<"movement", "M1">>}

\* WarehouseStockResponse.model_validate(stock)
WarehouseStockResponse(row) ==
    [warehouse_id |-> row.warehouse_id, product_id |-> row.product_id,
     quantity |-> row.quantity]

\* a view that is complete as soon as one of the two timestamps is present
from_db_model_EitherTimestamp(mv) ==
    [id |-> mv.id, product_id |-> mv.product_id,
     source_warehouse_id |-> mv.source_warehouse_id,
     destination_warehouse_id |-> mv.destination_warehouse_id,
     departure_timestamp |-> mv.departure_timestamp,
     arrival_timestamp |-> mv.arrival_timestamp,
     departure_quantity |-> mv.departure_quantity,
     arrival_quantity |-> mv.arrival_quantity,
     transfer_time |-> mv.transfer_time,
     quantity_difference |-> mv.quantity_difference,
     is_complete |-> mv.departure_timestamp # Null \/ mv.arrival_timestamp # Null]

\* MovementDetailResponse.from_db_model(movement)
from_db_model(mv) ==
    [id |-> mv.id, product_id |-> mv.product_id,
     source_warehouse_id |-> mv.source_warehouse_id,
     destination_warehouse_id |-> mv.destination_warehouse_id,
     departure_timestamp |-> mv.departure_timestamp,
     arrival_timestamp |-> mv.arrival_timestamp,
     departure_quantity |-> mv.departure_quantity,
     arrival_quantity |-> mv.arrival_quantity,
     transfer_time |-> mv.transfer_time,
     quantity_difference |-> mv.quantity_difference,
     is_complete |-> mv.departure_timestamp # Null /\ mv.arrival_timestamp # Null]

\* the datetime fields of the responses
DatetimeFields == {"departure_timestamp", "arrival_timestamp"}

\* CacheManager.set's json.dumps(value, default=serialize_datetime): a
\* datetime becomes its ISO string
json_dumps(value) ==
    [f \in DOMAIN value |->
        IF f \in DatetimeFields /\ value[f] # Null
        THEN Some(IsoTs(The(value[f]))) ELSE value[f]]

\* json.loads in CacheManager.get, then the response model's model_validate:
\* an ISO string of a datetime field is parsed back
response_validate(data) ==
    [f \in DOMAIN data |->
        IF f \in DatetimeFields /\ data[f] # Null
        THEN Some((The(data[f])).secs) ELSE data[f]]

\* the database read of the two routes: get_stock / get_by_id and the
\* response built from the row (Null: no row, the route answers 404)
db_response(d, key) ==
    IF key[1] = "stock"
    THEN LET rows == StockRows(d, key[2], key[3])
         IN IF rows = {} THEN Null
            ELSE Some(WarehouseStockResponse(The(rows)))
    ELSE LET rows == MovementRows(d, key[2])
         IN IF rows = {} THEN Null ELSE Some(from_db_model(The(rows)))

\* a request that has been answered: its key, the response (Null: 404), where
\* the response came from, whether it reached Redis, and how many cache
\* deletes had been issued by then
Answered(key, response, from, stored) ==
    Some([key |-> key, response |-> response, from |-> from,
          stored |-> stored, deletes |-> Cardinality(cache_deletes)])

\* get_movement / get_warehouse_product_stock, step 1: cache_manager.get
ReadCache ==
    /\ reader.pc = "idle"
    /\ \E key \in ReaderKeys :
          LET cached_data == get(cache, key) IN
          reader' =
              IF cached_data # Null
              THEN IdleReader(Answered(key,
                       Some(response_validate(The(cached_data))), "cache",
                       FALSE))
              ELSE [reader EXCEPT !.pc = "db", !.key = Some(key)]
    /\ UNCHANGED <<lifecycle, batch,
                   db, log, position, committed, offset, last_processed_offset,
                   pc, session, cache_deletes, outcome, cache, redis>>

\* a database step that also stores the absence of the row under the key
ReadDb_CachesNotFound ==
    /\ reader.pc = "db"
    /\ LET response == db_response(db, The(reader.key)) IN
       /\ reader' =
             IF response = Null
             THEN IdleReader(Answered(The(reader.key), Null, "db", FALSE))
             ELSE [reader EXCEPT !.pc = "set", !.value = response]
       /\ cache' =
             IF response = Null
             THEN set(cache, The(reader.key), [detail |-> "not found"])
             ELSE cache
    /\ UNCHANGED <<lifecycle, batch, db, log, position, committed, offset,
                   last_processed_offset, pc, session, cache_deletes, outcome,
                   redis>>

\* step 2: the row is read from the database; without a row the answer is 404
ReadDb ==
    /\ reader.pc = "db"
    /\ LET response == db_response(db, The(reader.key)) IN
       reader' =
           IF response = Null
           THEN IdleReader(Answered(The(reader.key), Null, "db", FALSE))
           ELSE [reader EXCEPT !.pc = "set", !.value = response]
    /\ UNCHANGED <<lifecycle, batch,
                   db, log, position, committed, offset, last_processed_offset,
                   pc, session, cache_deletes, outcome, cache, redis>>

\* step 3: cache_manager.set(cache_key, response.model_dump()), return
ReadSet ==
    /\ reader.pc = "set"
    /\ cache' = set(cache, The(reader.key), json_dumps(The(reader.value)))
    /\ reader' = IdleReader(Answered(The(reader.key), reader.value, "db",
                                     redis = "connected"))
    /\ UNCHANGED <<lifecycle, batch,
                   db, log, position, committed, offset, last_processed_offset,
                   pc, session, cache_deletes, outcome, redis>>

\* the client's commands start to raise, or the client is not connected
RedisFails ==
    /\ redis = "connected"
    /\ redis' \in {"error", "disconnected"}
    /\ UNCHANGED <<lifecycle, batch,
                   db, log, position, committed, offset, last_processed_offset,
                   pc, session, cache_deletes, outcome, cache, reader>>

RedisRecovers ==
    /\ redis # "connected"
    /\ redis' = "connected"
    /\ UNCHANGED <<lifecycle, batch,
                   db, log, position, committed, offset, last_processed_offset,
                   pc, session, cache_deletes, outcome, cache, reader>>

\* The producer appends an ARRIVAL or a DEPARTURE of one unit
ProduceCached ==
    /\ Len(log["c1"]) < MaxLogCached
    /\ \E m \in MessagesOver({Len(log["c1"]) + 1}, {"M1"}, {"W1"}, {"P1"},
                             {10}, {1}) :
          log' = [log EXCEPT !["c1"] = Append(@, m)]
    /\ UNCHANGED <<lifecycle, batch,
                   db, position, committed, offset, last_processed_offset,
                   pc, session, cache_deletes, outcome, cache, redis, reader>>

CacheNext ==
    \/ ProduceCached
    \/ Poll("c1")
    \/ Receive("c1")
    \/ GetProduct("c1")
    \/ FlushProduct("c1")
    \/ GetWarehouse("c1")
    \/ FlushWarehouse("c1")
    \/ GetStock("c1")
    \/ FlushStock("c1")
    \/ GetMovement("c1")
    \/ FlushMovement("c1")
    \/ CreateEvent("c1")
    \/ DeleteStockCache("c1")
    \/ DeleteMovementCache("c1")
    \/ Commit("c1")
    \/ DbError("c1")
    \/ CommitOffsets("c1")
    \/ ReadCache
    \/ ReadDb
    \/ ReadSet
    \/ RedisFails
    \/ RedisRecovers

CacheSpec == Init /\ [][CacheNext]_vars


\* ------------------------------------- peers on different rows and the same
\* Two consumers of different partitions whose events name the same or
\* different warehouses, products and movements, so that their transactions
\* meet at the product, warehouse, stock, movement and journal rows.
MaxLogFirst == 2
MaxLogSecond == 1

PeerWarehouses == {"W1", "W2"}
PeerProducts == {"P1", "P2"}
PeerMovements == {"M1", "M2"}

\* The producer appends an ARRIVAL or a DEPARTURE of one unit, each message
\* with an id of its own.  The ids of rows matter only up to equality: the
\* first message of c1's partition names W1, P1 and M1.
ProducePeers(c) ==
    /\ Len(log[c]) < (IF c = "c1" THEN MaxLogFirst ELSE MaxLogSecond)
    /\ \E m \in MessagesOver(
                   {IF c = "c1" THEN Len(log[c]) + 1
                    ELSE MaxLogFirst + Len(log[c]) + 1},
                   PeerMovements, PeerWarehouses, PeerProducts, {10}, {1}) :
          /\ log' = [log EXCEPT ![c] = Append(@, m)]
          /\ log'["c1"] # <<>>
          /\ LET first == log'["c1"][1] IN
                /\ first.warehouse_id = "W1"
                /\ first.product_id = "P1"
                /\ first.movement_id = Some("M1")
    /\ UNCHANGED <<lifecycle, batch,
                   db, position, committed, offset, last_processed_offset,
                   pc, session, cache_deletes, outcome, cache, redis, reader>>

PeersNext ==
    \E c \in Consumers :
        \/ ProducePeers(c)
        \/ Poll(c)
        \/ Receive(c)
        \/ GetProduct(c)
        \/ FlushProduct(c)
        \/ GetWarehouse(c)
        \/ FlushWarehouse(c)
        \/ GetStock(c)
        \/ FlushStock(c)
        \/ GetMovement(c)
        \/ FlushMovement(c)
        \/ CreateEvent(c)
        \/ DeleteStockCache(c)
        \/ DeleteMovementCache(c)
        \/ Commit(c)
        \/ DbError(c)
        \/ CommitOffsets(c)

PeersSpec == Init /\ [][PeersNext]_vars

\* -------------------------------------- peers on the halves of one movement
\* Two consumers whose events are on one movement of one product and differ
\* in warehouse and timestamp, so that two columns of a half can come from
\* different events.
HalfTimestamps == {10, 20}

\* The producer appends an ARRIVAL or a DEPARTURE of one unit of P1 for
\* movement M1, each message with an id of its own; the first message of
\* c1's partition names W1
ProduceHalves(c) ==
    /\ Len(log[c]) < (IF c = "c1" THEN MaxLogFirst ELSE MaxLogSecond)
    /\ \E m \in MessagesOver(
                   {IF c = "c1" THEN Len(log[c]) + 1
                    ELSE MaxLogFirst + Len(log[c]) + 1},
                   {"M1"}, PeerWarehouses, {"P1"}, HalfTimestamps, {1}) :
          /\ log' = [log EXCEPT ![c] = Append(@, m)]
          /\ log'["c1"] # <<>>
          /\ log'["c1"][1].warehouse_id = "W1"
    /\ UNCHANGED <<lifecycle, batch,
                   db, position, committed, offset, last_processed_offset,
                   pc, session, cache_deletes, outcome, cache, redis, reader>>

HalvesNext ==
    \E c \in Consumers :
        \/ ProduceHalves(c)
        \/ Poll(c)
        \/ Receive(c)
        \/ GetProduct(c)
        \/ FlushProduct(c)
        \/ GetWarehouse(c)
        \/ FlushWarehouse(c)
        \/ GetStock(c)
        \/ FlushStock(c)
        \/ GetMovement(c)
        \/ FlushMovement(c)
        \/ CreateEvent(c)
        \/ DeleteStockCache(c)
        \/ DeleteMovementCache(c)
        \/ Commit(c)
        \/ DbError(c)
        \/ CommitOffsets(c)

HalvesSpec == Init /\ [][HalvesNext]_vars

\* ------------------------------------------- start, stop and the lifespan
\* One consumer service from its construction on: start() creating and
\* starting clients, the lifespan's shutdown (stop(), then cancellation of the
\* task), and the process being killed and started again.
MaxLogLife == 2
MaxClients == 2

\* the client self.consumer refers to can be used
ClientOpen == consumer # Null /\ clients[The(consumer)] = "started"

\* AIOKafkaConsumer.stop() on the client self.consumer refers to
CloseClient(cs, ref) ==
    IF ref = Null THEN cs ELSE [cs EXCEPT ![The(ref)] = "closed"]

\* start(), lines 57-62: the loop's test and the creation of a client
CreateConsumer ==
    /\ task = "start_loop"
    /\ ~running
    /\ Len(clients) < MaxClients
    /\ clients' = Append(clients, "created")
    /\ consumer' = Some(Len(clients) + 1)
    /\ task' = "starting"
    /\ UNCHANGED <<running, shutdown, batch, db, log, position, committed,
                   offset, last_processed_offset, pc, session, cache_deletes,
                   outcome, cache, redis, reader>>

\* start(), lines 63-68: consumer.start() returns, _running is set, the
\* client resumes at the group's committed offset; _consume_messages returns
\* at once when self.consumer is None
ConsumerStarted ==
    /\ task = "starting"
    /\ clients' = [clients EXCEPT ![Len(clients)] =
                      IF @ = "created" THEN "started" ELSE @]
    /\ running' = TRUE
    /\ position' = [position EXCEPT !["c1"] = committed["c1"]]
    /\ pc' = [pc EXCEPT !["c1"] = "idle"]
    /\ task' = IF consumer = Null THEN "start_loop" ELSE "consume"
    /\ UNCHANGED <<consumer, shutdown, batch, db, log, committed, offset,
                   last_processed_offset, session, cache_deletes, outcome,
                   cache, redis, reader>>

\* start(), lines 69-82: consumer.start() raises KafkaError
ConsumerStartFails ==
    /\ task = "starting"
    /\ clients' = CloseClient(clients, consumer)
    /\ consumer' = Null
    /\ running' = FALSE
    /\ task' = "backoff"
    /\ UNCHANGED <<shutdown, batch, db, log, position, committed, offset,
                   last_processed_offset, pc, session, cache_deletes, outcome,
                   cache, redis, reader>>

\* start(), lines 83-89: consumer.start() raises another exception; stop()
\* is called and the loop is left, start() returns
StartBreaks ==
    /\ task = "starting"
    /\ clients' = CloseClient(clients, consumer)
    /\ consumer' = Null
    /\ running' = FALSE
    /\ task' = "done"
    /\ UNCHANGED <<shutdown, batch, db, log, position, committed, offset,
                   last_processed_offset, pc, session, cache_deletes, outcome,
                   cache, redis, reader>>

\* start(), line 82: asyncio.sleep(10) is over
BackoffEnds ==
    /\ task = "backoff"
    /\ task' = "start_loop"
    /\ UNCHANGED <<running, consumer, clients, shutdown, batch, db, log,
                   position, committed, offset, last_processed_offset, pc,
                   session, cache_deletes, outcome, cache, redis, reader>>

\* _consume_messages, lines 110-115: the loop's test passes and getmany()
\* returns records
LifePoll ==
    /\ task = "consume"
    /\ running
    /\ ClientOpen
    /\ Poll("c1")

\* _consume_messages, line 110: the loop's test fails, back in start()'s loop
ConsumeReturns ==
    /\ task = "consume"
    /\ pc["c1"] = "idle"
    /\ ~running
    /\ task' = "start_loop"
    /\ UNCHANGED <<running, consumer, clients, shutdown, batch, db, log,
                   position, committed, offset, last_processed_offset, pc,
                   session, cache_deletes, outcome, cache, redis, reader>>

\* a step of the message loop: the loop does not look at _running or at the
\* client between the messages of a batch
LifeProcess ==
    /\ task = "consume"
    /\ \/ Receive("c1")
       \/ GetProduct("c1")
       \/ FlushProduct("c1")
       \/ GetWarehouse("c1")
       \/ FlushWarehouse("c1")
       \/ GetStock("c1")
       \/ FlushStock("c1")
       \/ GetMovement("c1")
       \/ FlushMovement("c1")
       \/ CreateEvent("c1")
       \/ DeleteStockCache("c1")
       \/ DeleteMovementCache("c1")
       \/ Commit("c1")
       \/ DbError("c1")

\* _consume_messages, lines 138-149: the offset commit; on a client that
\* stop() has closed or set to None the call raises, which is logged
LifeCommitOffsets ==
    /\ task = "consume"
    /\ IF ClientOpen \/ last_processed_offset["c1"] < 0
       THEN CommitOffsets("c1")
       ELSE /\ pc["c1"] = "next"
            /\ offset["c1"] = position["c1"]
            /\ pc' = [pc EXCEPT !["c1"] = "idle"]
            /\ UNCHANGED <<lifecycle, batch, db, log, position, committed,
                           offset, last_processed_offset, session,
                           cache_deletes, outcome, cache, redis, reader>>

\* CancelledError raised at the await the task is at: the session's context
\* manager closes the session, which rolls the transaction back; a commit
\* that was already sent may or may not have taken effect
Cancelled ==
    /\ task' = IF task = "done" THEN "done" ELSE "cancelled"
    /\ session' = [session EXCEPT !["c1"] = NoSession]
    /\ pc' = [pc EXCEPT !["c1"] = "idle"]
    /\ \/ db' = db
       \/ /\ task = "consume" /\ pc["c1"] = "commit"
          /\ db' = ApplyWrites(db, session["c1"], <<"c1", offset["c1"]>>)

\* lifespan, line 71, and stop(), lines 93-97: _running is cleared and
\* consumer.stop() is called; without a client stop() returns at once and
\* the lifespan cancels the task (lines 75-79)
StopCalled ==
    /\ shutdown = "serving"
    /\ running' = FALSE
    /\ clients' = CloseClient(clients, consumer)
    /\ IF consumer # Null
       THEN /\ shutdown' = "stopping"
            /\ UNCHANGED <<task, session, pc, db>>
       ELSE /\ shutdown' = "finished"
            /\ Cancelled
    /\ UNCHANGED <<consumer, batch, log, position, committed, offset,
                   last_processed_offset, cache_deletes, outcome, cache,
                   redis, reader>>

\* stop(), lines 101-102, and lifespan, lines 75-79: consumer.stop() has
\* returned, self.consumer is set to None, the task is cancelled
StopReturns ==
    /\ shutdown = "stopping"
    /\ consumer' = Null
    /\ shutdown' = "finished"
    /\ Cancelled
    /\ UNCHANGED <<running, clients, batch, log, position, committed, offset,
                   last_processed_offset, cache_deletes, outcome, cache,
                   redis, reader>>

\* The process is killed and started again: the open transaction is rolled
\* back by the database, the clients are gone, the lifespan creates a new
\* task running start()
Restart ==
    /\ clients # <<>>
    /\ Len(clients) < MaxClients
    /\ clients' = [k \in DOMAIN clients |-> "closed"]
    /\ running' = FALSE
    /\ consumer' = Null
    /\ task' = "start_loop"
    /\ shutdown' = "serving"
    /\ session' = [session EXCEPT !["c1"] = NoSession]
    /\ pc' = [pc EXCEPT !["c1"] = "idle"]
    /\ UNCHANGED <<batch, db, log, position, committed, offset,
                   last_processed_offset, cache_deletes, outcome, cache,
                   redis, reader>>

\* The producer appends an ARRIVAL or a DEPARTURE of one unit
ProduceLife ==
    /\ Len(log["c1"]) < MaxLogLife
    /\ \E m \in MessagesOver({Len(log["c1"]) + 1}, {"M1"}, {"W1"}, {"P1"},
                             {10}, {1}) :
          log' = [log EXCEPT !["c1"] = Append(@, m)]
    /\ UNCHANGED <<lifecycle, batch, db, position, committed, offset,
                   last_processed_offset, pc, session, cache_deletes, outcome,
                   cache, redis, reader>>

LifeInit ==
    /\ db = EmptyDb
    /\ log = [c \in Consumers |-> <<>>]
    /\ position = [c \in Consumers |-> 0]
    /\ committed = [c \in Consumers |-> 0]
    /\ offset = [c \in Consumers |-> 0]
    /\ last_processed_offset = [c \in Consumers |-> 0 - 1]
    /\ pc = [c \in Consumers |-> "idle"]
    /\ session = [c \in Consumers |-> NoSession]
    /\ cache_deletes = {}
    /\ outcome = [c \in Consumers |-> <<>>]
    /\ cache = {}
    /\ redis = "connected"
    /\ reader = IdleReader(Null)
    /\ batch = [c \in Consumers |-> 0]
    /\ running = FALSE
    /\ consumer = Null
    /\ clients = <<>>
    /\ task = "start_loop"
    /\ shutdown = "serving"

LifeNext ==
    \/ ProduceLife
    \/ CreateConsumer
    \/ StartBreaks
    \/ ConsumerStarted
    \/ ConsumerStartFails
    \/ BackoffEnds
    \/ LifePoll
    \/ ConsumeReturns
    \/ LifeProcess
    \/ LifeCommitOffsets
    \/ StopCalled
    \/ StopReturns
    \/ Restart

LifecycleSpec == LifeInit /\ [][LifeNext]_vars


\* ------------------------------------------------------------- properties
\* the message consumer c handled at offset i (0-based)
MessageAt(c, i) == log[c][i + 1]

\* consumer c takes the step that ends its current message with outcome `how`
Ends(c, how) == outcome'[c] = Append(outcome[c], how)

\* consumer c takes its first step on the message at offset[c]
Receives(c) ==
    /\ pc[c] = "next"
    /\ offset[c] < position[c]
    /\ <<pc[c], offset[c]>> # <<pc'[c], offset'[c]>>

\* C1: non-negative stock: in every committed state every stock row has
\* quantity >= 0.
C1_NonNegativeStock == \A r \in db.stocks : r.quantity >= 0

\* a departure was rejected for negative stock, and a committed row holds 0
\* after a committed departure took the last unit
C1_Witness ==
    /\ \E r \in db.stocks : r.quantity = 0
    /\ \E ev \in db.events : ev.event_type = "departure" /\ ev.quantity > 0
    /\ \E c \in Consumers : \E i \in 1 .. Len(outcome[c]) :
          outcome[c][i] = "negative_stock"

\* C2: idempotency: however often a message is delivered, the journal holds
\* at most one row per message id, and the committed state changes only in a
\* step that adds the journal row of a message id not journalled before; so
\* the effects of a message are applied at most once.
C2_Idempotent ==
    [][/\ \A id \in MessageIds : Cardinality(EventRows(db', id)) <= 1
       /\ db' # db =>
            \E r \in db'.events \ db.events : EventRows(db, r.id) = {}]_vars

\* a message was delivered again after its transaction committed
C2_Witness ==
    \E c \in Consumers : \E i \in 1 .. Len(outcome[c]) :
        /\ outcome[c][i] = "already_processed"
        /\ EventRows(db, log[c][i].id) # {}

\* C3: invalidation after commit: every cache delete that has been issued
\* belongs to an event whose database transaction has committed.
C3_InvalidationAfterCommit ==
    \A d \in cache_deletes :
        /\ Len(outcome[d.consumer]) > d.offset
        /\ outcome[d.consumer][d.offset + 1] = "committed"

\* C4: no message is skipped: every message below the offset committed to
\* the broker was committed to the database, already processed, or malformed.
C4_NoMessageSkipped ==
    \A c \in Consumers : \A i \in 0 .. (committed[c] - 1) :
        outcome[c][i + 1] \in {"committed", "already_processed", "malformed"}


\* what the event of c's open transaction has to leave in the committed rows
AllWritesVisible(c, d) ==
    LET e == Event(c)
        s == session[c]
    IN /\ e.product_id \in d.products
       /\ e.warehouse_id \in d.warehouses
       /\ \E r \in StockRows(d, e.warehouse_id, e.product_id) :
             s.stock # s.loaded_stock => r.quantity = The(s.stock)
       /\ \E mv \in MovementRows(d, e.movement_id) :
             MovementKey(e) \in s.inserted \cup s.locked =>
                IF e.event_type = "departure"
                THEN /\ mv.source_warehouse_id = Some(e.warehouse_id)
                     /\ mv.departure_timestamp = Some(e.timestamp)
                     /\ mv.departure_quantity = Some(e.quantity)
                ELSE /\ mv.destination_warehouse_id = Some(e.warehouse_id)
                     /\ mv.arrival_timestamp = Some(e.timestamp)
                     /\ mv.arrival_quantity = Some(e.quantity)
       /\ EventRow(e, <<c, offset[c]>>) \in d.events

\* C5: atomicity of one event: the committed state changes only in the step
\* that commits an event, that step makes all of the event's writes visible
\* together (product, warehouse, stock, movement half, journal row), the
\* journal row of an open transaction is not visible before, and a step that
\* ends an event in failure (a failed commit included) leaves the committed
\* state as it was.
C5_Atomic ==
    [][/\ \A c \in Consumers :
            /\ Ends(c, "committed") => AllWritesVisible(c, db')
            /\ Ends(c, "db_error") \/ Ends(c, "negative_stock") => db' = db
            /\ pc[c] \in InTransaction =>
                  EventRow(Event(c), <<c, offset[c]>>) \notin db.events
       /\ db' # db => \E c \in Consumers : Ends(c, "committed")]_vars

\* an event failed after its cache deletes, i.e. at its commit, with all its
\* writes flushed, and nothing of it is committed
C5_Witness ==
    \E c \in Consumers :
        /\ outcome[c] = <<"db_error">>
        /\ \E d \in cache_deletes : d.consumer = c /\ d.offset = 0
        /\ db = EmptyDb

RECURSIVE SumDeltas(_)
SumDeltas(S) ==
    IF S = {} THEN 0
    ELSE LET ev == CHOOSE x \in S : TRUE
         IN quantity_delta(ev) + SumDeltas(S \ {ev})

\* C6: no lost update on stock: events on one (warehouse, product) serialize
\* on the row lock, each computes from the committed quantity, so a stock
\* row's quantity is the sum of the deltas of the committed events on it.
C6_NoLostUpdate ==
    \A r \in db.stocks :
        r.quantity =
            SumDeltas({ev \in db.events :
                          /\ ev.warehouse_id = r.warehouse_id
                          /\ ev.product_id = r.product_id})

\* the transactions that committed a message with this id
CommittedWith(id) ==
    {ci \in Consumers \X (1 .. (MaxLog + MaxLogPeer)) :
        /\ ci[2] <= Len(outcome[ci[1]])
        /\ outcome[ci[1]][ci[2]] = "committed"
        /\ log[ci[1]][ci[2]].id = id}

\* C7: concurrent duplicates: of the transactions that process one message
\* id, at most one commits.
C7_AtMostOneCommits ==
    \A id \in MessageIds : Cardinality(CommittedWith(id)) <= 1

\* a transaction that passed the journal check is at its journal insert
\* while a peer's commit of the same message id is in the journal
C7_Witness ==
    \E c \in Consumers :
        /\ pc[c] = "event"
        /\ EventRows(db, Event(c).message_id) # {}

\* the committed stock of the event's pair would go below zero
WouldGoNegative(e) ==
    LET rows == StockRows(db, e.warehouse_id, e.product_id)
    IN IF rows # {} THEN (The(rows)).quantity + quantity_delta(e) < 0
       ELSE quantity_delta(e) < 0

\* C8: negative-stock rejection: a DEPARTURE whose delta would take the
\* committed stock below zero ends (unless the statement itself fails with a
\* database error) in the negative-stock rollback; that
\* rollback changes no row, deletes no cache key and does not count the
\* message as handled; and the committed offset stays at or below it.
C8_NegativeStockRejected ==
    /\ [][\A c \in Consumers :
            /\ ( /\ pc[c] = "stock"
                 /\ pc'[c] # "stock"
                 /\ ~Ends(c, "db_error")
                 /\ Event(c).event_type = "departure"
                 /\ WouldGoNegative(Event(c)) )
               => Ends(c, "negative_stock")
            /\ Ends(c, "negative_stock") =>
                 /\ db' = db
                 /\ cache_deletes' = cache_deletes
                 /\ last_processed_offset' = last_processed_offset]_vars
    /\ [](\A c \in Consumers : \A i \in 1 .. Len(outcome[c]) :
            ( /\ outcome[c][i] = "negative_stock"
              /\ Lower(log[c][i].event) = "departure" )
               => committed[c] <= i - 1)

\* after its batch every message with this outcome is below the committed
\* offset
OffsetPast(how) ==
    \A c \in Consumers :
        pc[c] = "idle" =>
            \A i \in 1 .. Len(outcome[c]) :
                outcome[c][i] = how => committed[c] >= i

\* C9: already-processed short-circuit: an event whose message id has a
\* committed journal row is ended as already processed by the journal check;
\* that step writes no row, opens no pending write, deletes no cache key,
\* counts the message as handled, and the offset committed after the batch
\* is past it.
C9_AlreadyProcessed ==
    /\ [][\A c \in Consumers :
            /\ ( /\ Receives(c)
                 /\ Wellformed(MessageAt(c, offset[c]))
                 /\ EventRows(db, MessageAt(c, offset[c]).id) # {} )
               => Ends(c, "already_processed")
            /\ Ends(c, "already_processed") =>
                 /\ db' = db
                 /\ session' = session
                 /\ cache_deletes' = cache_deletes
                 /\ last_processed_offset'[c] = offset[c]]_vars
    /\ []OffsetPast("already_processed")

\* a duplicate was short-circuited and the committed offset is past it
C9_Witness ==
    \E c \in Consumers :
        /\ pc[c] = "idle"
        /\ committed[c] = Len(outcome[c])
        /\ \E i \in 1 .. Len(outcome[c]) : outcome[c][i] = "already_processed"

\* the ways a raw message is malformed
Malformed(m) ==
    \/ m.encoding # "json"
    \/ m.movement_id = Null
    \/ m.time < 0
    \/ m.event \notin {"arrival", "departure", "ARRIVAL", "DEPARTURE"}
    \/ ~m.timestamp.iso

\* C10: malformed messages are terminal: a message that fails decoding or
\* validation is ended as malformed in its first step; that step writes no
\* row, opens no transaction, deletes no cache key, counts the message as
\* handled, and the offset committed after the batch is past it.
C10_MalformedTerminal ==
    /\ [][\A c \in Consumers :
            ( Receives(c) /\ Malformed(MessageAt(c, offset[c])) ) =>
                 /\ Ends(c, "malformed")
                 /\ db' = db
                 /\ session' = session
                 /\ cache_deletes' = cache_deletes
                 /\ last_processed_offset'[c] = offset[c]]_vars
    /\ []OffsetPast("malformed")

\* a message without data.movement_id was skipped: offset past it, no rows,
\* no cache delete
C10_Witness ==
    \E c \in Consumers : \E i \in 1 .. Len(outcome[c]) :
        /\ outcome[c][i] = "malformed"
        /\ log[c][i].movement_id = Null
        /\ committed[c] >= i
        /\ db = EmptyDb
        /\ cache_deletes = {}

\* the one row of movement M1 in the session's rows
MovementOf(d) == The(MovementRows(d, "M1"))

\* the movement repository was called with a DEPARTURE and an ARRIVAL of one
\* movement_id, in either order, on an empty store
PairApplied ==
    /\ pc["c1"] = "movement_repository"
    /\ Len(Calls) = 2
    /\ Calls[1].event_type # Calls[2].event_type

\* the row the other order of the two calls leaves
OtherOrder ==
    MovementOf(movement_create_or_update(
                   movement_create_or_update(EmptyDb, Calls[2]), Calls[1]))

\* C11 as stated: pairing order independence: a DEPARTURE and an ARRIVAL of
\* one movement_id (any warehouses, product ids, timestamps, quantities)
\* leave the same Movement row in either order.
C11_PairingOrderIndependent ==
    PairApplied => MovementOf(db) = OtherOrder

\* C11, amended: a DEPARTURE and an ARRIVAL of one movement_id that carry the
\* same product_id leave the same Movement row (product_id, both halves,
\* transfer_time, quantity_difference) in either order; when their product
\* ids differ, the rows agree in everything but product_id, which is the
\* first event's.
C11_PairingOrderIndependentSameProduct ==
    PairApplied =>
        /\ Calls[1].product_id = Calls[2].product_id
              => MovementOf(db) = OtherOrder
        /\ [MovementOf(db) EXCEPT !.product_id = ""] =
              [OtherOrder EXCEPT !.product_id = ""]
        /\ (MovementOf(db)).product_id = Calls[1].product_id

\* an ARRIVAL was applied before the DEPARTURE of the same movement, the
\* warehouses, timestamps and quantities differ, and the row has both halves
\* and both derived fields
C11_Witness ==
    /\ PairApplied
    /\ Calls[1].event_type = "arrival"
    /\ Calls[1].product_id = Calls[2].product_id
    /\ Calls[1].warehouse_id # Calls[2].warehouse_id
    /\ Calls[1].timestamp > Calls[2].timestamp
    /\ Calls[1].quantity # Calls[2].quantity
    /\ (MovementOf(db)).transfer_time = Some(10)
    /\ (MovementOf(db)).quantity_difference # Null

\* both halves of a movement row are present, the arrival not before the
\* departure
Paired(mv) ==
    /\ mv.departure_timestamp # Null
    /\ mv.arrival_timestamp # Null
    /\ mv.departure_quantity # Null
    /\ mv.arrival_quantity # Null
    /\ The(mv.arrival_timestamp) >= The(mv.departure_timestamp)

\* C12: derivation correctness: in every committed state every Movement with
\* both halves present and arrival_timestamp >= departure_timestamp has
\* transfer_time = arrival_timestamp - departure_timestamp (seconds) and
\* quantity_difference = arrival_quantity - departure_quantity.
C12_DerivationCorrect ==
    \A mv \in db.movements :
        Paired(mv) =>
            /\ mv.transfer_time =
                  Some(The(mv.arrival_timestamp) - The(mv.departure_timestamp))
            /\ mv.quantity_difference =
                  Some(The(mv.arrival_quantity) - The(mv.departure_quantity))

\* the committed rows after the service has processed the events of a
\* sequence, first to last, starting from an empty database
RECURSIVE Replay(_)
Replay(events) ==
    IF events = <<>> THEN EmptyDb
    ELSE process_movement_event(
             Replay(SubSeq(events, 1, Len(events) - 1)),
             events[Len(events)]).db

\* two events on different movements and different stock rows
Independent(e1, e2) ==
    /\ e1.movement_id # e2.movement_id
    /\ <<e1.warehouse_id, e1.product_id>> # <<e2.warehouse_id, e2.product_id>>

\* the service's last two events were independent
LastTwoIndependent ==
    /\ pc["c1"] = "service"
    /\ Len(Calls) >= 2
    /\ Independent(Calls[Len(Calls) - 1], Calls[Len(Calls)])

\* C13: commutativity of independent events: the committed state (stock,
\* movement and journal rows) and each event's outcome after two independent
\* events are those of processing the two in the other order.
C13_IndependentEventsCommute ==
    LastTwoIndependent =>
        LET n == Len(Calls)
            before == Replay(SubSeq(Calls, 1, n - 2))
            second_first == process_movement_event(before, Calls[n])
            then_first == process_movement_event(second_first.db, Calls[n - 1])
        IN /\ db = then_first.db
           /\ Results[n] = second_first.result
           /\ Results[n - 1] = then_first.result

\* after an arrival, a departure that succeeds and an independent departure
\* that fails for negative stock were processed: one outcome of each kind
C13_Witness ==
    /\ LastTwoIndependent
    /\ Len(Calls) = 3
    /\ Results = <<"committed", "committed", "negative_stock">>
    /\ Calls[2].event_type = "departure"
    /\ Calls[2].quantity > 0
    /\ Cardinality(db.movements) = 2

\* the stock repository is called in this step; the call and its result
StockCalled == pc["c1"] = "stock_repository" /\ log' # log
LastCall == log'["c1"][Len(log'["c1"])]
LastResult == outcome'["c1"][Len(outcome'["c1"])]

\* C14: ledger update of an existing row: create_or_update_stock on an
\* existing StockRow with current + delta >= 0 sets its quantity to
\* current + delta, adds no row and touches no other row; with
\* current + delta < 0 it raises, changes no row and does not flush.
C14_UpdateExistingRow ==
    [][StockCalled =>
          LET w == LastCall.warehouse_id
              p == LastCall.product_id
              delta == LastCall.quantity_delta
              rows == StockRows(db, w, p)
              current == (The(rows)).quantity
          IN rows # {} =>
                IF current + delta >= 0
                THEN /\ ~LastResult.raised
                     /\ db'.stocks = (db.stocks \ rows) \cup
                                        {StockRow(w, p, current + delta)}
                     /\ Cardinality(db'.stocks) = Cardinality(db.stocks)
                ELSE /\ LastResult.raised
                     /\ ~LastResult.flushed
                     /\ db' = db]_vars

\* a row was raised from 0 to 1, a call that would take it to -1 was refused
\* and the row still holds 1
C14_Witness ==
    /\ pc["c1"] = "stock_repository"
    /\ Len(Calls) = 3
    /\ Calls[1].warehouse_id = Calls[2].warehouse_id
    /\ Calls[2].warehouse_id = Calls[3].warehouse_id
    /\ Results[2] = [raised |-> FALSE, flushed |-> TRUE]
    /\ Results[3] = [raised |-> TRUE, flushed |-> FALSE]
    /\ db.stocks = {StockRow(Calls[1].warehouse_id, "P1", 1)}
    /\ Calls[2].quantity_delta = 1
    /\ Calls[3].quantity_delta = 0 - 2

\* C15: ledger creation of a missing row: create_or_update_stock for a pair
\* with no StockRow inserts one row with quantity = delta when delta >= 0
\* (delta = 0 included) and leaves the other rows; when delta < 0 it raises
\* and adds no row.
C15_CreateMissingRow ==
    [][StockCalled =>
          LET w == LastCall.warehouse_id
              p == LastCall.product_id
              delta == LastCall.quantity_delta
          IN StockRows(db, w, p) = {} =>
                IF delta >= 0
                THEN /\ ~LastResult.raised
                     /\ db'.stocks = db.stocks \cup {StockRow(w, p, delta)}
                     /\ Cardinality(db'.stocks) = Cardinality(db.stocks) + 1
                ELSE /\ LastResult.raised
                     /\ ~LastResult.flushed
                     /\ db' = db]_vars

\* a call with delta < 0 on a missing row was refused, then a row was
\* created with quantity 0 beside another row
C15_Witness ==
    /\ pc["c1"] = "stock_repository"
    /\ Len(Calls) = 3
    /\ Results[1] = [raised |-> TRUE, flushed |-> FALSE]
    /\ Calls[1].quantity_delta < 0
    /\ Calls[2].warehouse_id = Calls[1].warehouse_id
    /\ Calls[2].quantity_delta = 0
    /\ Cardinality(db.stocks) = 2
    /\ StockRow(Calls[1].warehouse_id, "P1", 0) \in db.stocks

\* the columns of the two halves
DepartureHalf(mv) ==
    <<mv.source_warehouse_id, mv.departure_timestamp, mv.departure_quantity>>
ArrivalHalf(mv) ==
    <<mv.destination_warehouse_id, mv.arrival_timestamp, mv.arrival_quantity>>
HalfOf(e) == <<Some(e.warehouse_id), Some(e.timestamp), Some(e.quantity)>>

\* the movement repository is called in this step
MovementCalled == pc["c1"] = "movement_repository" /\ log' # log

\* C16: last-write-wins per half: applying a DEPARTURE to an existing
\* Movement replaces source_warehouse_id, departure_timestamp and
\* departure_quantity with the event's values and leaves the arrival half and
\* product_id unchanged; an ARRIVAL replaces the arrival half and leaves the
\* departure half and product_id unchanged.
C16_LastWriteWinsPerHalf ==
    [][(MovementCalled /\ MovementRows(db, LastCall.movement_id) # {}) =>
          LET e == LastCall
              old == The(MovementRows(db, e.movement_id))
              new == The(MovementRows(db', e.movement_id))
          IN /\ Cardinality(MovementRows(db', e.movement_id)) = 1
             /\ new.product_id = old.product_id
             /\ IF e.event_type = "departure"
                THEN /\ DepartureHalf(new) = HalfOf(e)
                     /\ ArrivalHalf(new) = ArrivalHalf(old)
                ELSE /\ ArrivalHalf(new) = HalfOf(e)
                     /\ DepartureHalf(new) = DepartureHalf(old)]_vars

\* a second DEPARTURE with another warehouse, timestamp and quantity
\* overwrote the first one on a row that has its arrival half
C16_Witness ==
    /\ pc["c1"] = "movement_repository"
    /\ Len(Calls) = 3
    /\ Calls[1].event_type = "departure"
    /\ Calls[2].event_type = "arrival"
    /\ Calls[3].event_type = "departure"
    /\ Calls[3].warehouse_id # Calls[1].warehouse_id
    /\ Calls[3].timestamp # Calls[1].timestamp
    /\ Calls[3].quantity # Calls[1].quantity
    /\ DepartureHalf(MovementOf(db)) = HalfOf(Calls[3])
    /\ ArrivalHalf(MovementOf(db)) = HalfOf(Calls[2])

\* the events of a movement that took effect, in order: the calls of the
\* movement repository, or the service's committed events
RECURSIVE Applied(_, _, _)
Applied(calls, results, m) ==
    IF calls = <<>> THEN <<>>
    ELSE LET n == Len(calls)
             rest == Applied(SubSeq(calls, 1, n - 1),
                             SubSeq(results, 1, n - 1), m)
         IN IF calls[n].movement_id = m /\ results[n] \in {"ok", "committed"}
            THEN Append(rest, calls[n]) ELSE rest

\* C17: Movement.product_id is that of the first committed event of its
\* movement_id and no later event changes it, whatever product_id it carries.
C17_ProductIdFixed ==
    /\ pc["c1"] \in {"movement_repository", "service"} =>
          \A mv \in db.movements :
              /\ Applied(Calls, Results, mv.id) # <<>>
              /\ mv.product_id = Applied(Calls, Results, mv.id)[1].product_id
    /\ \A mv \in db.movements :
          Cardinality(MovementRows(db, mv.id)) = 1

\* the service committed three events of movement M1, the later two with
\* another product_id than the first, and the row has the first one's
C17_Witness ==
    /\ pc["c1"] = "service"
    /\ Results = <<"committed", "committed", "committed">>
    /\ \A i \in 1 .. 3 : Calls[i].movement_id = "M1"
    /\ Calls[1].product_id = "P1"
    /\ Calls[2].product_id = "P2"
    /\ Calls[3].product_id = "P2"
    /\ Calls[3].event_type = "departure"
    /\ (MovementOf(db)).product_id = "P1"



\* C18: a cache failure never fails an event: whether or not the delete
\* works, the stock key's delete is followed by the movement key's delete
\* and that one by the commit, both are attempted, the transaction is left
\* as it was and no outcome is recorded at either step; the commit that
\* follows publishes the event's rows and counts the message as a success.
C18_CacheFailureNeverFailsEvent ==
    [][/\ (pc["c1"] = "cache_stock" /\ pc'["c1"] # "cache_stock") =>
            /\ pc'["c1"] = "cache_movement"
            /\ session' = session /\ outcome' = outcome /\ db' = db
            /\ \E x \in cache_deletes' :
                  /\ x.consumer = "c1" /\ x.offset = offset["c1"]
                  /\ x.key = stock_cache_key(Event("c1"))
       /\ (pc["c1"] = "cache_movement" /\ pc'["c1"] # "cache_movement") =>
            /\ pc'["c1"] = "commit"
            /\ session' = session /\ outcome' = outcome /\ db' = db
            /\ \E x \in cache_deletes' :
                  /\ x.consumer = "c1" /\ x.offset = offset["c1"]
                  /\ x.key = movement_cache_key(Event("c1"))
       /\ (pc["c1"] = "commit" /\ pc'["c1"] # "commit"
             /\ outcome'["c1"][Len(outcome'["c1"])] # "db_error") =>
            /\ outcome'["c1"] = Append(outcome["c1"], "committed")
            /\ last_processed_offset'["c1"] = offset["c1"]
            /\ EventRows(db', Event("c1").message_id) # {}]_vars

\* an event whose stock delete and movement delete both failed has committed
\* its rows, and its offset was committed to the broker
C18_Witness ==
    \E x, y \in cache_deletes :
        /\ x.consumer = "c1" /\ y.consumer = "c1" /\ x.offset = y.offset
        /\ x.key[1] = "stock" /\ y.key[1] = "movement"
        /\ ~x.done /\ ~y.done
        /\ Len(outcome["c1"]) > x.offset
        /\ outcome["c1"][x.offset + 1] = "committed"
        /\ committed["c1"] > x.offset
        /\ EventRows(db, log["c1"][x.offset + 1].id) # {}

\* no transaction is open, no request is in flight and every cache delete
\* that was issued reached Redis
Quiescent ==
    /\ session["c1"] = NoSession
    /\ reader.pc = "idle"
    /\ \A x \in cache_deletes : x.done

\* C19: cache coherence with the read path: once the events have committed,
\* their invalidations have run and no read is in flight, every entry of the
\* cache equals the response built from the committed rows.
C19_CacheCoherent ==
    Quiescent =>
        \A x \in cache :
            Some(response_validate(x.value)) = db_response(db, x.key)

\* the key of the request that starts in this step
RequestedKey ==
    IF reader'.pc = "idle" THEN (The(reader'.last)).key ELSE The(reader'.key)

\* the request served before this one read the database for the same key,
\* found a row, and no cache delete has been issued since
FollowsDbRead ==
    /\ reader.pc = "idle" /\ reader' # reader
    /\ reader.last # Null
    /\ (The(reader.last)).from = "db"
    /\ (The(reader.last)).response # Null
    /\ (The(reader.last)).key = RequestedKey
    /\ (The(reader.last)).deletes = Cardinality(cache_deletes)

\* the request that starts is answered from the cache with the response of
\* the one before
SameFromCache ==
    /\ reader'.pc = "idle"
    /\ (The(reader'.last)).from = "cache"
    /\ (The(reader'.last)).response = (The(reader.last)).response

\* the database step of a miss on an existing row takes the row's response
ReturnsDbValue ==
    (reader.pc = "db" /\ reader' # reader
        /\ db_response(db, The(reader.key)) # Null) =>
        /\ reader'.pc = "set"
        /\ reader'.value = db_response(db, The(reader.key))

\* the last step of a miss answers with that response and leaves it under
\* the key
StoresAndReturns ==
    /\ reader'.pc = "idle"
    /\ (The(reader'.last)).response = reader.value
    /\ (The(reader'.last)).from = "db"
    /\ \E x \in cache' :
          /\ x.key = The(reader.key)
          /\ Some(response_validate(x.value)) = reader.value

C21_NotFound ==
    [][(reader.pc = "db" /\ reader' # reader
            /\ db_response(db, The(reader.key)) = Null) =>
          /\ reader'.pc = "idle"
          /\ (The(reader'.last)).key = The(reader.key)
          /\ (The(reader'.last)).response = Null
          /\ cache' = cache
          /\ \A x \in cache' : x.key # The(reader.key)]_vars

\* the movement was read before any event created it, with Redis working:
\* the answer was 404 and nothing is cached under its key
C21_Witness ==
    /\ reader.pc = "idle" /\ reader.last # Null
    /\ (The(reader.last)).key = <<"movement", "M1">>
    /\ (The(reader.last)).response = Null
    /\ MovementRows(db, "M1") = {}
    /\ redis = "connected"
    /\ \A x \in cache : x.key # <<"movement", "M1">>

\* the offsets of the events consumer c has committed to the database
AppliedOffsets(d, c) ==
    {r.processed_at[2] : r \in {x \in d.events : x.processed_at[1] = c}}

\* C24: per-partition ordering: a message's transaction begins only at the
\* loop's position in the fetched batch, for the message at that offset, and
\* every commit to the database applies an offset above all the offsets of
\* the partition applied before.
C24_PartitionOrder ==
    [][\A c \in Consumers :
          /\ (session[c] = NoSession /\ session'[c] # NoSession) =>
                /\ offset[c] >= batch[c] /\ offset[c] < position[c]
                /\ session'[c].event =
                      Some(prepare_event_data(MessageAt(c, offset[c])))
          /\ AppliedOffsets(db', c) # AppliedOffsets(db, c) =>
                /\ AppliedOffsets(db', c) = AppliedOffsets(db, c) \cup {offset[c]}
                /\ \A o \in AppliedOffsets(db, c) : o < offset[c]]_vars

\* C22: stop leads to shutdown: once stop() has been called no client is
\* created or started and no batch is polled.
C22_StopShutsDown ==
    [][shutdown # "serving" =>
          /\ Len(clients') = Len(clients)
          /\ \A k \in DOMAIN clients :
                clients'[k] = "started" => clients[k] = "started"
          /\ position' = position]_vars

\* a step of the lifespan's shutdown: stop() is called, or it returns and
\* the task is cancelled
ShutdownStep == shutdown' # shutdown /\ shutdown' \in {"stopping", "finished"}

\* C23: graceful shutdown of an in-flight message: while a message's
\* transaction is open, shutdown neither closes the consumer client nor
\* cancels the consumer task.
C23_InFlightAwaited ==
    [][(ShutdownStep /\ session["c1"] # NoSession) =>
          /\ clients' = clients
          /\ task' # "cancelled"]_vars

\* the outcomes with which _process_message_wrapper returns False
Failures == {"negative_stock", "db_error"}

\* C25: stop at the first failure in a partition: after a message of the
\* fetched batch has failed, the loop handles no further message of that
\* batch.
C25_StopAtFirstFailure ==
    \A c \in Consumers : \A i \in batch[c] .. (offset[c] - 1) :
        outcome[c][i + 1] \in Failures =>
            /\ offset[c] = i + 1
            /\ pc[c] \in {"next", "idle"}

\* the offsets of c's fetched batch whose message was handled successfully
Succeeded(c) ==
    {i \in batch[c] .. (position[c] - 1) : outcome[c][i + 1] \notin Failures}

\* C26: offset commit value: at the end of a partition's batch the offset
\* committed to the broker becomes the offset of the last successfully
\* handled message of the batch plus one, and stays as it is when no message
\* of the batch was handled successfully.
C26_OffsetCommitValue ==
    [][\A c \in Consumers :
          /\ (pc[c] = "next" /\ pc'[c] = "idle") =>
                committed'[c] =
                    IF Succeeded(c) = {} THEN committed[c]
                    ELSE (CHOOSE i \in Succeeded(c) :
                              \A j \in Succeeded(c) : j <= i) + 1
          /\ committed'[c] # committed[c] =>
                (pc[c] = "next" /\ pc'[c] = "idle")]_vars

\* a batch of two messages whose second failed: offset 1 was committed; and
\* the peer's batch of one failed message committed nothing
C26_Witness ==
    /\ batch["c1"] = 0 /\ position["c1"] = 2 /\ pc["c1"] = "idle"
    /\ outcome["c1"][1] = "committed" /\ outcome["c1"][2] \in Failures
    /\ committed["c1"] = 1
    /\ position["c2"] = 1 /\ pc["c2"] = "idle"
    /\ outcome["c2"] # <<>> /\ outcome["c2"][1] \in Failures
    /\ committed["c2"] = 0

\* C27: failed messages are retried: a well-formed message that has not been
\* committed to the database is not below the offset committed to the
\* broker, so that it is fetched again and none is dropped for good.
C27_FailedRedelivered ==
    \A i \in 0 .. (Len(log["c1"]) - 1) :
        (/\ Wellformed(MessageAt("c1", i))
         /\ EventRows(db, prepare_event_data(MessageAt("c1", i)).message_id) = {})
            => committed["c1"] <= i

\* C28: derived fields only for well-ordered complete movements: a Movement
\* that lacks a half, or whose arrival is before its departure, has neither
\* transfer_time nor quantity_difference.
C28_DerivedOnlyWhenPaired ==
    \A mv \in db.movements :
        ~Paired(mv) =>
            /\ mv.transfer_time = Null
            /\ mv.quantity_difference = Null

ServiceCalled == pc["c1"] = "service" /\ log' # log

\* applying event e leaves its movement with both halves and the arrival
\* before the departure
AnomalyAfter(d, e) ==
    \E mv \in MovementRows(d, e.movement_id) :
        IF e.event_type = "arrival"
        THEN /\ mv.departure_timestamp # Null
             /\ e.timestamp < The(mv.departure_timestamp)
        ELSE /\ mv.arrival_timestamp # Null
             /\ The(mv.arrival_timestamp) < e.timestamp

\* the quantity of the stock row of event e in d (0: no row)
StockOf(d, e) ==
    LET rows == StockRows(d, e.warehouse_id, e.product_id)
    IN IF rows = {} THEN 0 ELSE (The(rows)).quantity

\* C29: the timestamp anomaly is preserved, not rejected: an event that
\* leaves its movement with the arrival before the departure, and is not
\* refused for negative stock, commits its stock change, its movement half
\* and its journal row, and the movement's transfer_time is null afterwards,
\* whatever it was before.
C29_AnomalyPreserved ==
    [][(ServiceCalled /\ AnomalyAfter(db, LastCall)
            /\ LastResult # "negative_stock") =>
          /\ LastResult = "committed"
          /\ EventRows(db', LastCall.message_id) # {}
          /\ StockOf(db', LastCall) = StockOf(db, LastCall) + quantity_delta(LastCall)
          /\ LET mv == The(MovementRows(db', LastCall.movement_id)) IN
             /\ mv.transfer_time = Null
             /\ mv.departure_timestamp # Null /\ mv.arrival_timestamp # Null
             /\ The(mv.arrival_timestamp) < The(mv.departure_timestamp)
             /\ LastCall.timestamp \in
                   {The(mv.arrival_timestamp), The(mv.departure_timestamp)}]_vars

\* an ARRIVAL and a DEPARTURE at time 10 paired the movement with
\* transfer_time 0; a second DEPARTURE at time 20 committed and the
\* movement's transfer_time is null
C29_Witness ==
    /\ pc["c1"] = "service"
    /\ Len(Calls) = 3
    /\ Results = <<"committed", "committed", "committed">>
    /\ \A i \in 1 .. 3 : Calls[i].movement_id = "M1"
    /\ Calls[1].event_type = "arrival" /\ Calls[1].timestamp = 10
    /\ Calls[2].event_type = "departure" /\ Calls[2].timestamp = 10
    /\ Calls[3].event_type = "departure" /\ Calls[3].timestamp = 20
    /\ (MovementOf(db)).transfer_time = Null
    /\ (MovementOf(db)).departure_timestamp = Some(20)
    /\ Cardinality(db.events) = 3

\* the (warehouse, product) pairs that have a StockRow
StockPairs(d) == {<<r.warehouse_id, r.product_id>> : r \in d.stocks}

\* C30 as stated: lazy stock creation by arrivals only: every committed
\* StockRow has a committed ARRIVAL event for its warehouse and product.
C30_StockCreatedByArrival ==
    \A r \in db.stocks :
        \E ev \in db.events :
            /\ ev.event_type = "arrival"
            /\ ev.warehouse_id = r.warehouse_id
            /\ ev.product_id = r.product_id

\* C30, amended: a StockRow is created only by the commit of an event whose
\* signed delta is >= 0 (an ARRIVAL of a quantity >= 0 or a DEPARTURE of a
\* quantity <= 0), for that event's pair and with the delta as quantity;
\* a DEPARTURE of a positive quantity never creates one.
C30_StockCreatedByNonNegativeDelta ==
    [][/\ \A c \in Consumers :
             (pc[c] = "commit" /\ StockPairs(db') # StockPairs(db)
                 /\ Ends(c, "committed")) =>
                /\ quantity_delta(Event(c)) >= 0
                /\ StockPairs(db') = StockPairs(db) \cup
                      {<<Event(c).warehouse_id, Event(c).product_id>>}
                /\ StockRows(db', Event(c).warehouse_id, Event(c).product_id) =
                      {StockRow(Event(c).warehouse_id, Event(c).product_id,
                                quantity_delta(Event(c)))}
       /\ StockPairs(db') # StockPairs(db) =>
             \E d \in Consumers : pc[d] = "commit" /\ Ends(d, "committed")]_vars

\* a DEPARTURE of a positive quantity was refused while there was no row,
\* and the row was then created by a DEPARTURE of quantity -1, no ARRIVAL
\* having committed
C30_Witness ==
    /\ outcome["c1"] # <<>> /\ outcome["c1"][1] = "negative_stock"
    /\ Len(log["c1"]) = 2 /\ Lower(MessageAt("c1", 0).event) = "departure"
    /\ MessageAt("c1", 0).quantity = 1
    /\ db.stocks = {StockRow("W1", "P1", 1)}
    /\ \A ev \in db.events : ev.event_type = "departure" /\ ev.quantity = 0 - 1

\* the three columns of a half are all NULL / all set
HalfAbsent(half) == \A i \in 1 .. 3 : half[i] = Null
HalfPresent(half) == \A i \in 1 .. 3 : half[i] # Null

\* C31: halves are set together: in every committed state the three departure
\* fields of every Movement are all null or all non-null, likewise the three
\* arrival fields, and at least one of the two halves is present.
C31_HalvesSetTogether ==
    \A mv \in db.movements :
        /\ HalfAbsent(DepartureHalf(mv)) \/ HalfPresent(DepartureHalf(mv))
        /\ HalfAbsent(ArrivalHalf(mv)) \/ HalfPresent(ArrivalHalf(mv))
        /\ HalfPresent(DepartureHalf(mv)) \/ HalfPresent(ArrivalHalf(mv))

\* both consumers committed an event of movement M1, one row with the arrival
\* half only was committed first and the row now has both halves
C31_Witness ==
    /\ \E mv \in db.movements :
          HalfPresent(DepartureHalf(mv)) /\ HalfPresent(ArrivalHalf(mv))
    /\ \E ev \in db.events : ev.processed_at[1] = "c1"
    /\ \E ev \in db.events : ev.processed_at[1] = "c2"
    /\ \A c \in Consumers : pc[c] = "idle"

\* the next statement of c's transaction, when the database lets it run
Statement(c) ==
    \/ GetProduct(c)
    \/ FlushProduct(c)
    \/ GetWarehouse(c)
    \/ FlushWarehouse(c)
    \/ GetStock(c)
    \/ FlushStock(c)
    \/ GetMovement(c)
    \/ FlushMovement(c)
    \/ CreateEvent(c)
    \/ DeleteStockCache(c)
    \/ DeleteMovementCache(c)
    \/ Commit(c)

\* c's transaction is open and waits for a row lock or a pending INSERT of
\* the peer
Waits(c) == pc[c] \in InTransaction /\ ~ENABLED Statement(c)

\* how far a transaction has got
Stage(at) ==
    CASE at = "product" -> 1 [] at = "product_flush" -> 2
      [] at = "warehouse" -> 3 [] at = "warehouse_flush" -> 4
      [] at = "stock" -> 5 [] at = "stock_flush" -> 6
      [] at = "movement" -> 7 [] at = "movement_flush" -> 8
      [] at = "event" -> 9 [] at = "cache_stock" -> 10
      [] at = "cache_movement" -> 11 [] at = "commit" -> 12
      [] OTHER -> 13

NoWaitCycle ==
    \A c \in Consumers :
        Waits(c) => pc[Peer(c)] \in InTransaction /\ ~Waits(Peer(c))

\* C32: deadlock freedom: concurrently running event transactions on the same
\* or different warehouses, products and movements never all wait for each
\* other (a waiting transaction waits for a peer that can run), and every step
\* of a transaction takes it further or ends it in commit or rollback, so
\* every transaction ends.
C32_DeadlockFree ==
    /\ []NoWaitCycle
    /\ [][\A c \in Consumers :
             (pc[c] \in InTransaction /\ pc'[c] # pc[c]) =>
                /\ Stage(pc'[c]) > Stage(pc[c])
                /\ pc'[c] \notin InTransaction =>
                      /\ session'[c] = NoSession
                      /\ Len(outcome'[c]) = Len(outcome[c]) + 1]_vars

\* c1 holds the lock of a stock row and waits for the INSERT of movement M1
\* that c2, whose event is on another stock row, has pending
C32_Witness ==
    /\ Waits("c1")
    /\ pc["c1"] = "movement_flush"
    /\ StockKey(Event("c1")) \in session["c1"].locked
    /\ pc["c2"] \in InTransaction
    /\ StockKey(Event("c2")) # StockKey(Event("c1"))
    /\ MovementKey(Event("c1")) \in session["c2"].inserted

\* C33: start retry: a failure to create or start the consumer never makes
\* start() give up: while no stop was requested the task running start() has
\* not returned (it is creating, starting, sleeping before a retry, or
\* consuming).
C33_StartRetries == shutdown = "serving" => task # "done"

\* the last request was for a movement and was answered with a view
MovementViewed ==
    /\ reader.last # Null
    /\ The(reader.last).key[1] = "movement"
    /\ The(reader.last).response # Null

\* the view the last request was answered with
LastView == The(The(reader.last).response)

\* exactly one journal record is committed, and it is an ARRIVAL
FreshArrival ==
    /\ Cardinality(db.events) = 1
    /\ The(db.events).event_type = "arrival"

\* C34: completeness flag: every movement view given to a client, from the
\* database or from the cache, has is_complete true exactly when it has both
\* departure_timestamp and arrival_timestamp; when a single ARRIVAL has
\* committed on the empty state, the stock of its (warehouse, product) is the
\* event's quantity and the Movement has the arrival half only, its view
\* with is_complete false.
C34_CompletenessFlag ==
    /\ MovementViewed =>
          (LastView.is_complete <=>
              /\ LastView.departure_timestamp # Null
              /\ LastView.arrival_timestamp # Null)
    /\ FreshArrival =>
          LET ev == The(db.events) IN
          /\ db.stocks = {StockRow(ev.warehouse_id, ev.product_id, ev.quantity)}
          /\ Cardinality(db.movements) = 1
          /\ The(db.movements).id = ev.movement_id
          /\ ArrivalHalf(The(db.movements)) = HalfOf(ev)
          /\ HalfAbsent(DepartureHalf(The(db.movements)))
          /\ db_response(db, <<"movement", ev.movement_id>>) # Null
          /\ ~The(db_response(db, <<"movement", ev.movement_id>>)).is_complete
          /\ MovementViewed => ~LastView.is_complete

\* the first message, an ARRIVAL, was committed on the empty state, then a
\* DEPARTURE; the movement's view was answered from the cache and is complete
C34_Witness ==
    /\ outcome["c1"] = <<"committed", "committed">>
    /\ Lower(MessageAt("c1", 0).event) = "arrival"
    /\ MovementViewed
    /\ The(reader.last).from = "cache"
    /\ LastView.is_complete

\* C35: the journal is append-only: a committed ProcessedEventRecord is never
\* modified or removed by later event processing (duplicates, failures and
\* rollbacks included), the set of committed message_ids only grows, and a
\* message_id has one record.
C35_JournalAppendOnly ==
    [][/\ db.events \subseteq db'.events
       /\ \A r1, r2 \in db'.events : r1.id = r2.id => r1 = r2]_vars

\* a record was committed, after that a duplicate of its message was skipped
\* and the peer's event of the same movement was rolled back
C35_Witness ==
    /\ outcome["c1"] = <<"committed", "already_processed">>
    /\ outcome["c2"] = <<"db_error">>
    /\ Cardinality(db.events) = 1
    /\ The(db.events).id = MessageAt("c1", 0).id
    /\ MessageAt("c2", 0).id # MessageAt("c1", 0).id

\* the quantity of the pair's StockRow, an absent row counting as 0
StockQuantity(d, pair) ==
    LET rows == StockRows(d, pair[1], pair[2])
    IN IF rows = {} THEN 0 ELSE The(rows).quantity

\* C36: stock conservation: in every committed state, for every (warehouse,
\* product), the StockRow quantity (an absent row counting as 0) is the sum
\* of +quantity over the committed ARRIVAL records and -quantity over the
\* committed DEPARTURE records of that pair.
C36_StockConservation ==
    \A pair \in StockPairs(db) \cup
                    {<<ev.warehouse_id, ev.product_id>> : ev \in db.events} :
        StockQuantity(db, pair) =
            SumDeltas({ev \in db.events :
                          <<ev.warehouse_id, ev.product_id>> = pair})

\* every row of d refers to rows that exist in d
ReferencesExist(d) ==
    /\ \A r \in d.stocks :
          r.warehouse_id \in d.warehouses /\ r.product_id \in d.products
    /\ \A mv \in d.movements :
          /\ mv.product_id \in d.products
          /\ mv.source_warehouse_id \subseteq d.warehouses
          /\ mv.destination_warehouse_id \subseteq d.warehouses
    /\ \A ev \in d.events :
          /\ ev.warehouse_id \in d.warehouses
          /\ ev.product_id \in d.products
          /\ MovementRows(d, ev.movement_id) # {}

\* C37: referential integrity: in every committed state every StockRow,
\* Movement and journal record refers only to Product and Warehouse rows that
\* exist, every journal record refers to a Movement that exists, and Product,
\* Warehouse and Movement rows are never removed.
C37_ReferentialIntegrity ==
    [][/\ ReferencesExist(db')
       /\ db.products \subseteq db'.products
       /\ db.warehouses \subseteq db'.warehouses
       /\ {mv.id : mv \in db.movements} \subseteq {mv.id : mv \in db'.movements}]_vars

\* two warehouses and two products were created on first reference by the
\* two consumers; one movement has its halves in different warehouses and a
\* journal record of another product than its own
C37_Witness ==
    /\ db.warehouses = PeerWarehouses
    /\ db.products = PeerProducts
    /\ \E mv \in db.movements :
          /\ mv.source_warehouse_id # Null
          /\ mv.destination_warehouse_id # Null
          /\ mv.source_warehouse_id # mv.destination_warehouse_id
          /\ \E ev \in db.events :
                ev.movement_id = mv.id /\ ev.product_id # mv.product_id
    /\ \E ev \in db.events : ev.processed_at[1] = "c2"

\* the committed journal records of a movement and an event type
RecordsOf(d, m, type) ==
    {ev \in d.events : ev.movement_id = m /\ ev.event_type = type}

\* C38: movement halves match the journal: in every committed state a
\* Movement has a departure half iff a DEPARTURE record of its movement_id is
\* committed, and an arrival half iff an ARRIVAL record is; a present half
\* carries the warehouse, timestamp and quantity of one of those records.
C38_HalvesMatchJournal ==
    \A mv \in db.movements :
        /\ HalfPresent(DepartureHalf(mv)) <=>
              RecordsOf(db, mv.id, "departure") # {}
        /\ HalfPresent(ArrivalHalf(mv)) <=>
              RecordsOf(db, mv.id, "arrival") # {}
        /\ HalfPresent(DepartureHalf(mv)) =>
              \E ev \in RecordsOf(db, mv.id, "departure") :
                  DepartureHalf(mv) = HalfOf(ev)
        /\ HalfPresent(ArrivalHalf(mv)) =>
              \E ev \in RecordsOf(db, mv.id, "arrival") :
                  ArrivalHalf(mv) = HalfOf(ev)

\* the step is c's consumer.commit() call at the end of a partition batch
OffsetCommitCalled(c) ==
    pc[c] = "next" /\ pc'[c] = "idle" /\ last_processed_offset[c] >= 0

\* C39: monotonic committed offsets: for each partition, every offset the
\* consumer commits to the broker is greater than the one committed before,
\* and no step moves the committed offset backwards.
C39_MonotonicCommittedOffsets ==
    [][\A c \in Consumers :
          /\ committed'[c] >= committed[c]
          /\ OffsetCommitCalled(c) => committed'[c] > committed[c]]_vars

\* c1 has committed offset 1 after a first batch and offset 2 after a second
\* batch that began at offset 1
C39_Witness ==
    /\ pc["c1"] = "idle"
    /\ batch["c1"] = 1
    /\ committed["c1"] = 2
====
